---- MODULE Spec2Model ----
(***************************************************************************)
(* Model of the darktable view manager (src/views/view.c): the view-switch *)
(* state machine and the input-event dispatch chain.                       *)
(*                                                                         *)
(* Every entry point of the view manager is one atomic action (the code    *)
(* runs on the UI thread).  The hooks a call invokes are recorded, in      *)
(* order, in `trace`; every recorded event carries the value the           *)
(* active-view pointer had when the hook was called, which is what the     *)
(* hook would observe through dt_view_manager_get_current_view.            *)
(***************************************************************************)
EXTENDS Integers, Sequences, FiniteSets, TLC

\* ---------------------------------------------------------------- bounds
NPlugins == 3          \* length of darktable.lib->plugins
MaxErr == 2            \* try_enter returns a code in 0..MaxErr
MaxImg == 2            \* image ids are 1..MaxImg
MaxActive == 3         \* the active images are at most MaxActive
MaxPx == 76            \* the pointer is at px in 0..MaxPx
MaxPy == 40            \* and at py in 0..MaxPy
MaxAccels == 2         \* a view holds at most MaxAccels rounds of closures
MaxPlayers == 3        \* dt_view_audio_start spawns at most MaxPlayers players

\* ------------------------------------------------------------- constants
NULL == "NULL"                               \* the null view pointer
Views == {"lighttable", "darkroom"}          \* module_name of the loaded views
ViewNames == Views \cup {"", "nosuch"}       \* names a caller may ask for
Plugins == 1..NPlugins                       \* positions in lib->plugins

\* entry points of a view that dt_view_load_module resolves and sets to
\* NULL when the module does not export them
ViewSlots ==
  {"name", "view", "try_enter", "leave", "enter", "connect_key_accels",
   "button_pressed", "button_released",
   "mouse_leave", "mouse_enter", "mouse_moved",
   "key_pressed", "key_released",
   "scrolled", "scrollbar_changed", "reset", "configure", "expose"}

\* capability tables of the views of Spec and SpecDispatch: all entry points,
\* or none but name and view, which the view manager calls untested
\* (sort_views, the thumbtable update of the switch); CapsProfiles has the
\* tables without them
ViewProfiles == {ViewSlots, {"name", "view"}}

\* optional entry points of an overlay module (dt_lib_module_t)
LibSlots ==
  {"view_leave", "view_enter", "connect_key_accels",
   "button_pressed", "button_released", "mouse_leave", "mouse_moved",
   "gui_post_expose"}

\* overlay modules: the views they are visible in, and their entry points
LibKinds ==
  { [views |-> Views,          caps |-> LibSlots],
    [views |-> {"lighttable"}, caps |-> LibSlots],
    [views |-> {"darkroom"},
     caps |-> {"view_enter", "button_pressed", "mouse_moved"}] }

VARIABLES
  view_caps,     \* view -> set of entry points present (non-NULL)
  libs,          \* plugin -> [views, caps]
  current_view,  \* vm->current_view
  lib_accels,    \* plugin -> number of connect rounds held in accel_closures
  lib_gui,       \* plugin -> TRUE while plugin->data / plugin->widget are set
  view_accels,   \* view -> number of connect rounds held in accel_closures
  view_live,     \* views whose enter step has run and whose leave step has not
  view_geom,     \* view -> its width and height fields
  trace,         \* hooks and collaborator calls made by the last call, in order
  ret,           \* return value of the last call
  last,          \* the last call: entry point, arguments, active view before
  load_order,    \* the views in the order the module directory listed them
  registry,      \* vm->views as dt_view_manager_load_modules left it
  load_log,      \* what the loading of the view modules called, in order
  active_images, \* darktable.view_manager->active_images
  mouse_over_id, \* what dt_control_get_mouse_over_id returns
  selection,     \* the selected images of the collection, by rowid
  act_on,        \* what the last dt_view_get_image_to_act_on returned
  images_last,   \* the last call on the active images, and whether it signalled
  thumb,         \* geometry, pointer and settings of the last hit test
  over,          \* the last hit test: the call and its result
  audio          \* vm->audio, the player processes and their child watches

mgrVars ==
  <<view_caps, libs, current_view, lib_accels, lib_gui, view_accels,
    view_live, view_geom, trace, ret, last>>
regVars == <<load_order, registry, load_log>>
imgVars == <<active_images, mouse_over_id, selection, act_on, images_last>>
thumbVars == <<thumb, over>>
audioVars == <<audio>>
vars == <<mgrVars, regVars, imgVars, thumbVars, audioVars>>

\* ---------------------------------------------------------------- events
\* hook: the entry point or collaborator called; view / lib: the view or
\* the plugin it is called on (NULL / 0 when it is not one); a, b: the
\* (old, new) arguments; ret: what it returned; cur, live: the active-view
\* pointer and the entered views at the time of the call
Ev(hook, view, lib, a, b, r, cur, live) ==
  [hook |-> hook, view |-> view, lib |-> lib, a |-> a, b |-> b,
   ret |-> r, cur |-> cur, live |-> live]

\* the part of the state one call works on
Start ==
  [cur |-> current_view, accels |-> lib_accels, gui |-> lib_gui,
   vaccels |-> view_accels, live |-> view_live, geom |-> view_geom,
   trace |-> <<>>]

Emit(S, hook, view, lib, a, b, r) ==
  [S EXCEPT !.trace = Append(@, Ev(hook, view, lib, a, b, r, S.cur, S.live))]

\* if(view->slot) view->slot(view)
ViewCall(S, v, slot, r) ==
  IF slot \in view_caps[v] THEN Emit(S, slot, v, 0, NULL, NULL, r) ELSE S

\* if(plugin->slot) plugin->slot(plugin, a, b)
LibCall(S, p, slot, a, b, r) ==
  IF slot \in libs[p].caps THEN Emit(S, slot, NULL, p, a, b, r) ELSE S

dt_lib_is_visible_in_view(p, v) == v \in libs[p].views

Forward == [i \in 1..NPlugins |-> i]                 \* from the list head
\* variant: the traversal that should start at g_list_last starts at the head
Reverse_FromHead == [i \in 1..NPlugins |-> i]
Reverse == [i \in 1..NPlugins |-> NPlugins + 1 - i]  \* from g_list_last

\* --------------------------------------------- dt_view_manager_switch_by_view
\* if(old_view->leave) old_view->leave(old_view): the view has left
ViewLeave(S, old) ==
  [ViewCall(S, old, "leave", 0) EXCEPT !.live = @ \ {old}]

\* if(new_view->enter) new_view->enter(new_view): the view is entered
ViewEnter(S, new) ==
  ViewCall([S EXCEPT !.live = @ \cup {new}], new, "enter", 0)

\* variant: the loop body without the test of dt_lib_is_visible_in_view
NoneLeavePlugin_EveryPlugin(S, p, old) ==
  LET S1 == LibCall(S, p, "view_leave", old, NULL, 0)
      S2 == Emit(S1, "gui_cleanup", NULL, p, NULL, NULL, 0)
      S3 == [S2 EXCEPT !.gui[p] = FALSE]
      S4 == Emit(S3, "accel_disconnect", NULL, p, NULL, NULL, 0)
  IN  [S4 EXCEPT !.accels[p] = 0]

\* variant: the closures are disconnected, but plugin->data, plugin->widget
\* and plugin->accel_closures keep their values
NoneLeavePlugin_KeepsState(S, p, old) ==
  IF dt_lib_is_visible_in_view(p, old)
  THEN LET S1 == LibCall(S, p, "view_leave", old, NULL, 0)
           S2 == Emit(S1, "gui_cleanup", NULL, p, NULL, NULL, 0)
       IN  Emit(S2, "accel_disconnect", NULL, p, NULL, NULL, 0)
  ELSE S

\* switch to none: the body of the loop over the plugins
NoneLeavePlugin(S, p, old) ==
  IF dt_lib_is_visible_in_view(p, old)
  THEN LET S1 == LibCall(S, p, "view_leave", old, NULL, 0)
           S2 == Emit(S1, "gui_cleanup", NULL, p, NULL, NULL, 0)
           S3 == [S2 EXCEPT !.gui[p] = FALSE]
           S4 == Emit(S3, "accel_disconnect", NULL, p, NULL, NULL, 0)
       IN  [S4 EXCEPT !.accels[p] = 0]
  ELSE S

\* for(iter = lib->plugins; iter; iter = g_list_next(iter)), to none
RECURSIVE NoneLeaveLoop(_, _, _)
NoneLeaveLoop(S, order, old) ==
  IF order = <<>> THEN S
  ELSE NoneLeaveLoop(NoneLeavePlugin(S, Head(order), old), Tail(order), old)

\* variant: the same loop over the variant body
RECURSIVE NoneLeaveLoop_EveryPlugin(_, _, _)
NoneLeaveLoop_EveryPlugin(S, order, old) ==
  IF order = <<>> THEN S
  ELSE NoneLeaveLoop_EveryPlugin(NoneLeavePlugin_EveryPlugin(S, Head(order), old), Tail(order), old)

\* variant: the plugins are torn down without the test `if(old_view)`
SwitchToNone_NoOldTest(S, old) ==
  LET S0 == IF old # NULL THEN ViewLeave(S, old) ELSE S
      S1 == NoneLeaveLoop_EveryPlugin(S0, Forward, old)
      S2 == Emit(S1, "destroy_children", NULL, 0, NULL, NULL, 0)
  IN  [S |-> [S2 EXCEPT !.cur = NULL], ret |-> 0]

\* variant: `vm->current_view = NULL` is missing
SwitchToNone_KeepsCurrent(S, old) ==
  LET S1 == IF old # NULL
            THEN NoneLeaveLoop(ViewLeave(S, old), Forward, old)
            ELSE S
  IN  [S |-> Emit(S1, "destroy_children", NULL, 0, NULL, NULL, 0), ret |-> 0]

\* the special case of entering nothing
SwitchToNone(S, old) ==
  LET S1 == IF old # NULL
            THEN NoneLeaveLoop(ViewLeave(S, old), Forward, old)
            ELSE S
      S2 == Emit(S1, "destroy_children", NULL, 0, NULL, NULL, 0)
  IN  [S |-> [S2 EXCEPT !.cur = NULL], ret |-> 0]

\* variant: only a negative result of try_enter aborts
EntryRefused_NegativeOnly(new, err) == "try_enter" \in view_caps[new] /\ err < 0

\* does the entry guard of new_view refuse?  err is what try_enter returns
EntryRefused(new, err) == "try_enter" \in view_caps[new] /\ err # 0

\* variant: `plugin->accel_closures = NULL` and the disconnect are missing
LeavePlugin_KeepsClosures(S, p, old, new) ==
  IF dt_lib_is_visible_in_view(p, old)
  THEN LibCall(S, p, "view_leave", old, new, 0)
  ELSE S

\* variant: the loop body without the test of dt_lib_is_visible_in_view
LeavePlugin_EveryPlugin(S, p, old, new) ==
  LET S1 == LibCall(S, p, "view_leave", old, new, 0)
      S2 == Emit(S1, "accel_disconnect", NULL, p, NULL, NULL, 0)
  IN  [S2 EXCEPT !.accels[p] = 0]

\* the body of the loop that leaves the plugins of the old view
LeavePlugin(S, p, old, new) ==
  IF dt_lib_is_visible_in_view(p, old)
  THEN LET S1 == LibCall(S, p, "view_leave", old, new, 0)
           S2 == Emit(S1, "accel_disconnect", NULL, p, NULL, NULL, 0)
       IN  [S2 EXCEPT !.accels[p] = 0]
  ELSE S

\* for(iter = lib->plugins; iter; iter = g_list_next(iter)), leaving old
RECURSIVE LeaveLoop(_, _, _, _)
LeaveLoop(S, order, old, new) ==
  IF order = <<>> THEN S
  ELSE LeaveLoop(LeavePlugin(S, Head(order), old, new), Tail(order), old, new)

\* dt_accel_disconnect_list(old_view->accel_closures);
\* old_view->accel_closures = NULL
ViewDisconnect(S, old) ==
  [Emit(S, "accel_disconnect", old, 0, NULL, NULL, 0) EXCEPT !.vaccels[old] = 0]

\* variant: old_view->leave is not called
LeaveOld_SkipsLeave(S, old, new) ==
  IF old # NULL
  THEN LET S2 == ViewDisconnect(S, old)
           S3 == LeaveLoop(S2, Forward, old, new)
       IN  Emit(S3, "remove_children", NULL, 0, NULL, NULL, 0)
  ELSE S

\* cleanup current view before initialization of new
LeaveOld(S, old, new) ==
  IF old # NULL
  THEN LET S1 == ViewLeave(S, old)
           S2 == ViewDisconnect(S1, old)
           S3 == LeaveLoop(S2, Forward, old, new)
       IN  Emit(S3, "remove_children", NULL, 0, NULL, NULL, 0)
  ELSE S

\* variant: the assignment to vm->current_view is missing
SetCurrent_Stale(S, new) == S

\* change current view to the new view
SetCurrent(S, new) == [S EXCEPT !.cur = new]

\* add the plugins of the new view into the panels
AttachPlugin(S, p, new) ==
  IF dt_lib_is_visible_in_view(p, new)
  THEN LET S1 == LibCall(S, p, "connect_key_accels", NULL, NULL, 0)
           S2 == [S1 EXCEPT !.accels[p] = @ + 1]
       IN  Emit(S2, "container_add", NULL, p, NULL, NULL, 0)
  ELSE S

\* for(iter = g_list_last(lib->plugins); iter; iter = g_list_previous(iter))
RECURSIVE AttachLoop(_, _, _)
AttachLoop(S, order, new) ==
  IF order = <<>> THEN S
  ELSE AttachLoop(AttachPlugin(S, Head(order), new), Tail(order), new)

\* hide/show modules as last config, then view_enter
EnterPlugin(S, p, old, new) ==
  IF dt_lib_is_visible_in_view(p, new)
  THEN LibCall(S, p, "view_enter", old, new, 0)
  ELSE S

\* for(iter = lib->plugins; iter; iter = g_list_next(iter)), entering new
RECURSIVE EnterLoop(_, _, _, _)
EnterLoop(S, order, old, new) ==
  IF order = <<>> THEN S
  ELSE EnterLoop(EnterPlugin(S, Head(order), old, new), Tail(order), old, new)

\* if(new_view->connect_key_accels) new_view->connect_key_accels(new_view):
\* the view connects its accelerators, which adds their closures to
\* new_view->accel_closures
ViewConnect(S, new) ==
  IF "connect_key_accels" \in view_caps[new]
  THEN [ViewCall(S, new, "connect_key_accels", 0) EXCEPT !.vaccels[new] = @ + 1]
  ELSE S

\* variant: the accelerators of the view are connected before it is entered
EnterNew_AccelsFirst(S, new) == ViewEnter(ViewConnect(S, new), new)

\* enter view, connect its accelerators
EnterNew(S, new) == ViewConnect(ViewEnter(S, new), new)

\* variant: the signal is raised with its arguments exchanged
RaiseViewChanged_Swapped(S, old, new) ==
  Emit(S, "VIEW_CHANGED", NULL, 0, new, old, 0)

\* raise view changed signal
RaiseViewChanged(S, old, new) ==
  Emit(S, "VIEW_CHANGED", NULL, 0, old, new, 0)

\* a call through a NULL entry point ends the process: it is the last event
Faulted(S) == S.trace # <<>> /\ S.trace[Len(S.trace)].hook = "SIGSEGV"

\* dt_thumbtable_update_accels_connection(..., new_view->view(new_view)):
\* view is called without a test
ThumbtableAccels(S, new) ==
  IF "view" \in view_caps[new] THEN Emit(S, "view", new, 0, NULL, NULL, 0)
  ELSE Emit(S, "SIGSEGV", new, 0, NULL, NULL, 0)

SwitchToView(S, old, new, err) ==
  LET S1 == ViewCall(S, new, "try_enter", err)
  IN  IF EntryRefused(new, err)
      THEN [S |-> S1, ret |-> err]
      ELSE LET S2 == LeaveOld(S1, old, new)
               S3 == ThumbtableAccels(SetCurrent(S2, new), new)
               S4 == AttachLoop(S3, Reverse, new)
               S5 == EnterLoop(S4, Forward, old, new)
               S6 == EnterNew(S5, new)
           IN  IF Faulted(S3) THEN [S |-> S3, ret |-> 0]
               ELSE [S |-> RaiseViewChanged(S6, old, new), ret |-> 0]

\* variant: the undo list is cleared once the entry guard has accepted
dt_view_manager_switch_by_view_ClearsLate(S, nv, err) ==
  LET old == S.cur
      S1 == Emit(S, "undo_clear", NULL, 0, NULL, NULL, 0)
  IN  IF nv = NULL THEN SwitchToNone(S1, old)
      ELSE IF EntryRefused(nv, err) THEN SwitchToView(S, old, nv, err)
      ELSE SwitchToView(S1, old, nv, err)

\* dt_undo_clear(darktable.undo, DT_UNDO_ALL) comes first
dt_view_manager_switch_by_view(S, nv, err) ==
  LET old == S.cur
      S1 == Emit(S, "undo_clear", NULL, 0, NULL, NULL, 0)
  IN  IF nv = NULL THEN SwitchToNone(S1, old)
      ELSE SwitchToView(S1, old, nv, err)

\* ---------------------------------------------------- dt_view_manager_switch
\* the loop over vm->views comparing module_name with view_name
FindView(view_name) == IF view_name \in Views THEN view_name ELSE NULL

\* variant: `if(!new_view) return 1` is missing
dt_view_manager_switch_FallsThrough(S, view_name, err) ==
  dt_view_manager_switch_by_view(S, FindView(view_name), err)

dt_view_manager_switch(S, view_name, err) ==
  LET switching_to_none == view_name = ""
      new_view == IF switching_to_none THEN NULL ELSE FindView(view_name)
  IN  IF ~switching_to_none /\ new_view = NULL
      THEN [S |-> S, ret |-> 1]
      ELSE dt_view_manager_switch_by_view(S, new_view, err)

\* ---------------------------------------------------------------- actions
\* the closure list of a view grows with every round that is not
\* disconnected; the calls that would take it beyond MaxAccels are left out
AccelsBounded(S) == \A v \in DOMAIN S.vaccels : S.vaccels[v] <= MaxAccels

\* the process has ended in a call through a NULL entry point
Crashed == trace # <<>> /\ trace[Len(trace)].hook = "SIGSEGV"

Commit(R, op, name, nv) ==
  /\ ~Crashed /\ AccelsBounded(R.S)
  /\ current_view' = R.S.cur
  /\ lib_accels' = R.S.accels
  /\ lib_gui' = R.S.gui
  /\ view_accels' = R.S.vaccels
  /\ view_live' = R.S.live
  /\ view_geom' = R.S.geom
  /\ trace' = R.S.trace
  /\ ret' = R.ret
  /\ last' = [op |-> op, name |-> name, nv |-> nv, old |-> current_view]
  /\ UNCHANGED <<view_caps, libs, regVars, imgVars, thumbVars, audioVars>>

Switch(view_name, err) ==
  Commit(dt_view_manager_switch(Start, view_name, err),
         "switch", view_name,
         IF view_name = "" THEN NULL ELSE FindView(view_name))

\* variant: the loop condition is `while(plugins)`, without `&& !handled`
RECURSIVE PressedLoop_NoStop(_, _, _, _)
PressedLoop_NoStop(S, v, order, r) ==
  IF order = <<>> THEN [S |-> S, handled |-> FALSE]
  ELSE LET p == Head(order)
           called == "button_pressed" \in libs[p].caps
                     /\ dt_lib_is_visible_in_view(p, v)
           S1 == IF called
                 THEN Emit(S, "button_pressed", NULL, p, NULL, NULL,
                           IF r[p] THEN 1 ELSE 0)
                 ELSE S
           L == PressedLoop_NoStop(S1, v, Tail(order), r)
       IN  [S |-> L.S, handled |-> (called /\ r[p]) \/ L.handled]

\* ------------------------------------------- dt_view_manager_button_pressed
\* the loop `while(plugins && !handled)` from g_list_last backwards;
\* r[p] is what plugin p's handler returns when it is called
RECURSIVE PressedLoop(_, _, _, _)
PressedLoop(S, v, order, r) ==
  IF order = <<>> THEN [S |-> S, handled |-> FALSE]
  ELSE LET p == Head(order)
           called == "button_pressed" \in libs[p].caps
                     /\ dt_lib_is_visible_in_view(p, v)
           S1 == IF called
                 THEN Emit(S, "button_pressed", NULL, p, NULL, NULL,
                           IF r[p] THEN 1 ELSE 0)
                 ELSE S
       IN  IF called /\ r[p] THEN [S |-> S1, handled |-> TRUE]
           ELSE PressedLoop(S1, v, Tail(order), r)

dt_view_manager_button_pressed(S, r, vret) ==
  IF S.cur = NULL THEN [S |-> S, ret |-> 0]
  ELSE LET v == S.cur
           L == PressedLoop(S, v, Reverse, r)
       IN  IF L.handled THEN [S |-> L.S, ret |-> 1]
           ELSE IF "button_pressed" \in view_caps[v]
                THEN [S |-> ViewCall(L.S, v, "button_pressed", vret),
                      ret |-> vret]
                ELSE [S |-> L.S, ret |-> 0]

\* ------------------------------------------ dt_view_manager_button_released
\* the loop `while(plugins)`: handled is set, the traversal goes on
RECURSIVE ReleasedLoop(_, _, _, _)
ReleasedLoop(S, v, order, r) ==
  IF order = <<>> THEN [S |-> S, handled |-> FALSE]
  ELSE LET p == Head(order)
           called == "button_released" \in libs[p].caps
                     /\ dt_lib_is_visible_in_view(p, v)
           S1 == IF called
                 THEN Emit(S, "button_released", NULL, p, NULL, NULL,
                           IF r[p] THEN 1 ELSE 0)
                 ELSE S
           L == ReleasedLoop(S1, v, Tail(order), r)
       IN  [S |-> L.S, handled |-> (called /\ r[p]) \/ L.handled]

dt_view_manager_button_released(S, r, vret) ==
  IF S.cur = NULL THEN [S |-> S, ret |-> 0]
  ELSE LET v == S.cur
           L == ReleasedLoop(S, v, Reverse, r)
       IN  IF L.handled THEN [S |-> L.S, ret |-> 1]
           ELSE [S |-> ViewCall(L.S, v, "button_released", vret), ret |-> 0]

\* --------------------------------------------- dt_view_manager_mouse_moved
\* variant: the traversal stops at the first module that claims the event
RECURSIVE BroadcastLoop_FirstResponder(_, _, _, _, _)
BroadcastLoop_FirstResponder(S, v, slot, order, r) ==
  IF order = <<>> THEN [S |-> S, handled |-> FALSE]
  ELSE LET p == Head(order)
           called == slot \in libs[p].caps /\ dt_lib_is_visible_in_view(p, v)
           S1 == IF called
                 THEN Emit(S, slot, NULL, p, NULL, NULL, IF r[p] THEN 1 ELSE 0)
                 ELSE S
       IN  IF called /\ r[p] THEN [S |-> S1, handled |-> TRUE]
           ELSE BroadcastLoop_FirstResponder(S1, v, slot, Tail(order), r)

\* the loop `while(plugins)` of mouse_moved and of mouse_leave: every visible
\* module that has the handler is called, handled is the OR of the results
RECURSIVE BroadcastLoop(_, _, _, _, _)
BroadcastLoop(S, v, slot, order, r) ==
  IF order = <<>> THEN [S |-> S, handled |-> FALSE]
  ELSE LET p == Head(order)
           called == slot \in libs[p].caps /\ dt_lib_is_visible_in_view(p, v)
           S1 == IF called
                 THEN Emit(S, slot, NULL, p, NULL, NULL, IF r[p] THEN 1 ELSE 0)
                 ELSE S
           L == BroadcastLoop(S1, v, slot, Tail(order), r)
       IN  [S |-> L.S, handled |-> (called /\ r[p]) \/ L.handled]

\* variant: the handler of the view is called before the modules are asked
dt_view_manager_mouse_moved_ViewFirst(S, r) ==
  IF S.cur = NULL THEN [S |-> S, ret |-> 0]
  ELSE LET v == S.cur
           S1 == ViewCall(S, v, "mouse_moved", 0)
       IN  [S |-> BroadcastLoop(S1, v, "mouse_moved", Reverse, r).S, ret |-> 0]

\* mouse_moved and mouse_leave return void: the model's ret is 0
dt_view_manager_mouse_moved(S, r) ==
  IF S.cur = NULL THEN [S |-> S, ret |-> 0]
  ELSE LET v == S.cur
           L == BroadcastLoop(S, v, "mouse_moved", Reverse, r)
       IN  IF ~L.handled
           THEN [S |-> ViewCall(L.S, v, "mouse_moved", 0), ret |-> 0]
           ELSE [S |-> L.S, ret |-> 0]

\* --------------------------------------------- dt_view_manager_mouse_leave
dt_view_manager_mouse_leave(S, r) ==
  IF S.cur = NULL THEN [S |-> S, ret |-> 0]
  ELSE LET v == S.cur
           L == BroadcastLoop(S, v, "mouse_leave", Reverse, r)
       IN  IF ~L.handled
           THEN [S |-> ViewCall(L.S, v, "mouse_leave", 0), ret |-> 0]
           ELSE [S |-> L.S, ret |-> 0]

\* ------------------- dt_view_manager_key_pressed, dt_view_manager_key_released
\* variant: the key goes through the overlay modules' button chain first
dt_view_manager_key_ThroughChain(S, slot, vret) ==
  IF S.cur = NULL THEN [S |-> S, ret |-> 0]
  ELSE LET L == BroadcastLoop(S, S.cur, "button_pressed", Reverse,
                              [p \in Plugins |-> FALSE])
       IN  IF slot \in view_caps[S.cur]
           THEN [S |-> ViewCall(L.S, S.cur, slot, vret), ret |-> vret]
           ELSE [S |-> L.S, ret |-> 0]

\* slot is key_pressed or key_released; vret is what the view's handler returns
dt_view_manager_key(S, slot, vret) ==
  IF S.cur = NULL THEN [S |-> S, ret |-> 0]
  ELSE IF slot \in view_caps[S.cur]
       THEN [S |-> ViewCall(S, S.cur, slot, vret), ret |-> vret]
       ELSE [S |-> S, ret |-> 0]

\* ---- dt_view_manager_mouse_enter, _scrolled, _scrollbar_changed, _reset
\* variant: the test `if(!vm->current_view) return` is missing; the handler
\* is then looked up in the first view of vm->views
dt_view_manager_notify_NoGuard(S, slot) ==
  [S |-> ViewCall(S, IF S.cur = NULL THEN "lighttable" ELSE S.cur, slot, 0),
   ret |-> 0]

\* the void entry points that only forward to the active view's handler
dt_view_manager_notify(S, slot) ==
  IF S.cur = NULL THEN [S |-> S, ret |-> 0]
  ELSE [S |-> ViewCall(S, S.cur, slot, 0), ret |-> 0]

ButtonPressed(r, vret) ==
  Commit(dt_view_manager_button_pressed(Start, r, vret),
         "button_pressed", "", NULL)

ButtonReleased(r, vret) ==
  Commit(dt_view_manager_button_released(Start, r, vret),
         "button_released", "", NULL)

MouseMoved(r) ==
  Commit(dt_view_manager_mouse_moved(Start, r), "mouse_moved", "", NULL)

MouseLeave(r) ==
  Commit(dt_view_manager_mouse_leave(Start, r), "mouse_leave", "", NULL)

KeyPressed(vret) ==
  Commit(dt_view_manager_key(Start, "key_pressed", vret),
         "key_pressed", "", NULL)

KeyReleased(vret) ==
  Commit(dt_view_manager_key(Start, "key_released", vret),
         "key_released", "", NULL)

MouseEnter ==
  Commit(dt_view_manager_notify(Start, "mouse_enter"), "mouse_enter", "", NULL)

Scrolled ==
  Commit(dt_view_manager_notify(Start, "scrolled"), "scrolled", "", NULL)

ScrollbarChanged ==
  Commit(dt_view_manager_notify(Start, "scrollbar_changed"),
         "scrollbar_changed", "", NULL)

Reset ==
  Commit(dt_view_manager_notify(Start, "reset"), "reset", "", NULL)

\* ----------------------------------------------- dt_view_manager_configure
\* vm->views, in the order sort_views gives the views of the model
ViewList == <<"lighttable", "darkroom">>

\* variant: only the active view is configured
RECURSIVE ConfigureLoop_ActiveOnly(_, _, _, _)
ConfigureLoop_ActiveOnly(S, views, width, height) ==
  IF views = <<>> THEN S
  ELSE LET v == Head(views)
           S1 == IF v = S.cur
                 THEN [S EXCEPT !.geom[v] = [width |-> width, height |-> height]]
                 ELSE S
           S2 == IF v = S.cur /\ "configure" \in view_caps[v]
                 THEN Emit(S1, "configure", v, 0, width, height, 0)
                 ELSE S1
       IN  ConfigureLoop_ActiveOnly(S2, Tail(views), width, height)

\* for(iter = vm->views; iter; iter = g_list_next(iter)): v->width = width;
\* v->height = height; if(v->configure) v->configure(v, width, height).
\* The event of the call carries (width, height) in its fields a and b.
RECURSIVE ConfigureLoop(_, _, _, _)
ConfigureLoop(S, views, width, height) ==
  IF views = <<>> THEN S
  ELSE LET v == Head(views)
           S1 == [S EXCEPT !.geom[v] = [width |-> width, height |-> height]]
           S2 == IF "configure" \in view_caps[v]
                 THEN Emit(S1, "configure", v, 0, width, height, 0)
                 ELSE S1
       IN  ConfigureLoop(S2, Tail(views), width, height)

dt_view_manager_configure(S, width, height) ==
  [S |-> ConfigureLoop(S, ViewList, width, height), ret |-> 0]

Configure(width, height) ==
  Commit(dt_view_manager_configure(Start, width, height), "configure", "", NULL)

\* -------------------------------------------------- dt_view_manager_expose
\* while(plugins): if(plugin->gui_post_expose &&
\* dt_lib_is_visible_in_view(plugin, vm->current_view)) the call with the
\* size of the view and (px, py); plugins = g_list_previous(plugins)
RECURSIVE PostExposeLoop(_, _, _, _, _)
PostExposeLoop(S, v, order, size, pos) ==
  IF order = <<>> THEN S
  ELSE LET p == Head(order)
           S1 == IF "gui_post_expose" \in libs[p].caps
                    /\ dt_lib_is_visible_in_view(p, v)
                 THEN Emit(S, "gui_post_expose", NULL, p, size, pos, 0)
                 ELSE S
       IN  PostExposeLoop(S1, v, Tail(order), size, pos)

\* without an active view the background is painted and nothing is called;
\* else the size is stored in the view and, if(vm->current_view->expose),
\* the view and then the modules are exposed, from g_list_last backwards.
\* The events carry <<width, height>> in a and <<px, py>> in b.
dt_view_manager_expose(S, width, height, pointerx, pointery) ==
  IF S.cur = NULL THEN [S |-> S, ret |-> 0]
  ELSE LET v == S.cur
           S1 == [S EXCEPT !.geom[v] = [width |-> width, height |-> height]]
           size == <<S1.geom[v].width, S1.geom[v].height>>
           pos == IF pointery > S1.geom[v].height
                  THEN <<10000, -1>> ELSE <<pointerx, pointery>>
       IN  IF "expose" \in view_caps[v]
           THEN [S |-> PostExposeLoop(Emit(S1, "expose", v, 0, size, pos, 0),
                                      v, Reverse, size, pos),
                 ret |-> 0]
           ELSE [S |-> S1, ret |-> 0]

Expose(width, height, pointerx, pointery) ==
  LET R == dt_view_manager_expose(Start, width, height, pointerx, pointery)
  IN  /\ ~Crashed
      /\ current_view' = R.S.cur
      /\ lib_accels' = R.S.accels
      /\ lib_gui' = R.S.gui
      /\ view_accels' = R.S.vaccels
      /\ view_live' = R.S.live
      /\ view_geom' = R.S.geom
      /\ trace' = R.S.trace
      /\ ret' = R.ret
      /\ last' = [op |-> "expose", name |-> "", nv |-> NULL,
                  old |-> current_view, width |-> width, height |-> height,
                  pointerx |-> pointerx, pointery |-> pointery]
      /\ UNCHANGED <<view_caps, libs, regVars, imgVars, thumbVars, audioVars>>

\* the plugins whose handler `slot` the dispatcher can reach in this state,
\* and the return values of the handlers: TRUE for the plugins in h
Handlers(slot) ==
  {p \in Plugins : slot \in libs[p].caps /\ current_view \in libs[p].views}
Returns(h) == [p \in Plugins |-> p \in h]

\* the values the variables of the other specifications keep in this one
RegistryIdle ==
  /\ load_order = <<>>
  /\ registry = [loaded |-> FALSE, fault |-> FALSE, views |-> <<>>]
  /\ load_log = <<>>
ImagesIdle ==
  /\ active_images = <<>>
  /\ mouse_over_id = -1
  /\ selection = <<>>
  /\ act_on = -1
  /\ images_last = [op |-> "init", imgid |-> -1, raise |-> FALSE,
                    signal |-> FALSE]
ThumbIdle ==
  /\ thumb = [width |-> 0, height |-> 0, zoom |-> 0, px |-> 0, py |-> 0,
              dpi |-> 0]
  /\ over = [op |-> "init", what |-> 0, active |-> 0, extended |-> FALSE,
             show_overlays |-> FALSE, attempted |-> FALSE, ret |-> 0]
\* vm->audio.audio_player_id = -1 in dt_view_manager_init; no player has
\* been spawned.  id, pid, source: audio_player_id, audio_player_pid,
\* audio_player_event_source; procs: the players by pid, each "running",
\* "exited" (its exit is not delivered yet), "killed" or "reaped"; watches:
\* the child watches attached (a watch has the pid of its player as id);
\* last: the last call, the player it was about and what it did, in order
AudioIdle ==
  audio = [id |-> -1, pid |-> 0, source |-> 0, procs |-> <<>>,
           watches |-> {},
           last |-> [op |-> "init", pid |-> 0, steps |-> <<>>]]

\* view->height = view->width = 100 in dt_view_load_module
DefaultSize == 100
\* no view is active after dt_view_manager_init
ManagerStart ==
  /\ current_view = NULL
  /\ lib_accels = [p \in Plugins |-> 0]
  /\ lib_gui = [p \in Plugins |-> TRUE]
  /\ view_accels = [v \in Views |-> 0]
  /\ view_live = {}
  /\ view_geom = [v \in Views |-> [width |-> DefaultSize, height |-> DefaultSize]]
  /\ trace = <<>>
  /\ ret = 0
  /\ last = [op |-> "init", name |-> "", nv |-> NULL, old |-> NULL]

\* the manager in the specifications of the registry, of the active images
\* and of the hit test, which do not call it: nothing is loaded
ManagerIdle ==
  /\ view_caps = <<>>
  /\ libs = <<>>
  /\ current_view = NULL
  /\ lib_accels = <<>>
  /\ lib_gui = <<>>
  /\ view_accels = <<>>
  /\ view_live = {}
  /\ view_geom = <<>>
  /\ trace = <<>>
  /\ ret = 0
  /\ last = [op |-> "init", name |-> "", nv |-> NULL, old |-> NULL]

Init ==
  /\ view_caps \in [Views -> ViewProfiles]
  /\ libs \in [Plugins -> LibKinds]
  /\ ManagerStart
  /\ RegistryIdle /\ ImagesIdle /\ ThumbIdle /\ AudioIdle

Next ==
  \/ \E view_name \in ViewNames, err \in 0..MaxErr : Switch(view_name, err)
  \/ \E h \in SUBSET Handlers("button_pressed"), vret \in 0..1 :
       ButtonPressed(Returns(h), vret)
  \/ \E h \in SUBSET Handlers("button_released"), vret \in 0..1 :
       ButtonReleased(Returns(h), vret)

Spec == Init /\ [][Next]_vars

\* ------------------------------------------ views without name() or view()
\* capability tables of a view that is loaded: dt_view_load_module accepts a
\* module without view(); one without name() did not get past sort_views
CapsProfiles ==
  {ViewSlots, ViewSlots \ {"view"}, {"name", "view"}, {"name"}}

InitCaps ==
  /\ view_caps \in [Views -> CapsProfiles]
  /\ libs \in [Plugins -> LibKinds]
  /\ ManagerStart
  /\ RegistryIdle /\ ImagesIdle /\ ThumbIdle /\ AudioIdle

NextCaps == \E view_name \in ViewNames, err \in 0..MaxErr : Switch(view_name, err)

SpecCaps == InitCaps /\ [][NextCaps]_vars

\* ------------------------------------------------- configure of all views
\* widths and heights of the window
ConfWidths == {DefaultSize, 640}
ConfHeights == {DefaultSize, 480}

NextConfigure ==
  \/ \E view_name \in ViewNames : Switch(view_name, 0)
  \/ \E width \in ConfWidths, height \in ConfHeights : Configure(width, height)

SpecConfigure == Init /\ [][NextConfigure]_vars

\* the pointer of an expose: on the last row of a view of the default
\* height, and one row below it
ExposeWidths == {640}
PointerXs == {7}
PointerYs == {DefaultSize, DefaultSize + 1}

\* the frames are drawn on the states the switches bring about
NextManagerExpose ==
  \/ \E view_name \in ViewNames : Switch(view_name, 0)
  \/ /\ last.op \in {"init", "switch"}
     /\ \E width \in ExposeWidths, height \in ConfHeights,
           pointerx \in PointerXs, pointery \in PointerYs :
          Expose(width, height, pointerx, pointery)

SpecManagerExpose == Init /\ [][NextManagerExpose]_vars

\* ------------------------------------------------ the event dispatch chain
\* The dispatch entry points read current_view and the module list and
\* write neither, so every event meets the state the last switch left: the
\* events are dispatched on the states the switches bring about, one event
\* of every kind on each.
Settled == last.op \in {"init", "switch"}

NextDispatch ==
  \/ \E view_name \in ViewNames : Switch(view_name, 0)
  \/ /\ Settled
     /\ \/ \E h \in SUBSET Handlers("button_pressed"), vret \in 0..1 :
             ButtonPressed(Returns(h), vret)
        \/ \E h \in SUBSET Handlers("button_released"), vret \in 0..1 :
             ButtonReleased(Returns(h), vret)
        \/ \E h \in SUBSET Handlers("mouse_moved") : MouseMoved(Returns(h))
        \/ \E h \in SUBSET Handlers("mouse_leave") : MouseLeave(Returns(h))
        \/ \E vret \in 0..1 : KeyPressed(vret) \/ KeyReleased(vret)
        \/ MouseEnter \/ Scrolled \/ ScrollbarChanged \/ Reset

SpecDispatch == Init /\ [][NextDispatch]_vars

\* ------------------------------------------------------- the view registry
\* module_name of the view modules the directory may hold
ViewModules == {"lighttable", "darkroom", "map", "print"}
\* display names as the bytes strcmp compares: "B", "a", "ab"
DisplayNames == {<<66>>, <<97>>, <<97, 98>>}
\* a loaded view: its module_name, whether the module exports name(), and
\* what name() returns
ViewRecs ==
  [module_name : ViewModules, has_name : {TRUE}, name : DisplayNames]
    \cup [module_name : ViewModules, has_name : {FALSE}, name : {<<>>}]
\* the listings of a module directory: every module at most once
RECURSIVE LoadOrdersOfLen(_)
LoadOrdersOfLen(n) ==
  IF n = 0 THEN {<<>>}
  ELSE UNION { { Append(o, v) :
                   v \in {w \in ViewRecs : \A i \in 1..(n - 1) :
                            o[i].module_name # w.module_name} } :
               o \in LoadOrdersOfLen(n - 1) }
LoadOrders == UNION {LoadOrdersOfLen(n) : n \in 0..Cardinality(ViewModules)}

\* strcmp on byte strings, by its sign
RECURSIVE strcmp(_, _)
strcmp(a, b) ==
  IF a = <<>> /\ b = <<>> THEN 0
  ELSE IF a = <<>> THEN -1
  ELSE IF b = <<>> THEN 1
  ELSE IF Head(a) < Head(b) THEN -1
  ELSE IF Head(a) > Head(b) THEN 1
  ELSE strcmp(Tail(a), Tail(b))

view_order == <<"lighttable", "darkroom">>
n_view_order == Len(view_order)
\* the loop over view_order: the index of module_name (from 0), or n_view_order
ViewOrderPos(module_name) ==
  IF \E i \in 1..n_view_order : view_order[i] = module_name
  THEN (CHOOSE i \in 1..n_view_order : view_order[i] = module_name) - 1
  ELSE n_view_order

\* av->name(av) and bv->name(bv) are called first and untested: with a NULL
\* name the call is a call through a null pointer (fault)
sort_views(av, bv) ==
  IF ~av.has_name \/ ~bv.has_name THEN [fault |-> TRUE, order |-> 0]
  ELSE LET apos == ViewOrderPos(av.module_name)
           bpos == ViewOrderPos(bv.module_name)
           order == apos - bpos
       IN  [fault |-> FALSE,
            order |-> IF order # 0 THEN order ELSE strcmp(av.name, bv.name)]

\* the sort of dt_module_load_modules, a stable sort by the comparator:
\* v goes behind every view that does not compare greater than it
RECURSIVE InsertSorted(_, _)
InsertSorted(l, v) ==
  IF l = <<>> THEN [fault |-> FALSE, views |-> <<v>>]
  ELSE LET c == sort_views(Head(l), v)
       IN  IF c.fault THEN [fault |-> TRUE, views |-> l]
           ELSE IF c.order > 0 THEN [fault |-> FALSE, views |-> <<v>> \o l]
           ELSE LET R == InsertSorted(Tail(l), v)
                IN  [fault |-> R.fault, views |-> <<Head(l)>> \o R.views]

RECURSIVE SortModules(_, _)
SortModules(sorted, rest) ==
  IF rest = <<>> THEN [fault |-> FALSE, views |-> sorted]
  ELSE LET R == InsertSorted(sorted, Head(rest))
       IN  IF R.fault THEN R ELSE SortModules(R.views, Tail(rest))

\* vm->views = dt_module_load_modules("/views", ..., sort_views); order is
\* the list of the views that dt_view_load_module has loaded (LoadModules
\* has the loader and its calls)
dt_view_manager_load_modules(order) ==
  /\ load_order' = order
  /\ registry' = [loaded |-> TRUE] @@ SortModules(<<>>, order)
  /\ load_log' = <<>>
  /\ UNCHANGED <<mgrVars, imgVars, thumbVars, audioVars>>

InitRegistry ==
  /\ ManagerIdle
  /\ RegistryIdle /\ ImagesIdle /\ ThumbIdle /\ AudioIdle

\* the modules are loaded once, by dt_view_manager_init
NextRegistry ==
  /\ ~registry.loaded
  /\ \E order \in LoadOrders : dt_view_manager_load_modules(order)

SpecRegistry == InitRegistry /\ [][NextRegistry]_vars

\* ------------------------------------------------------- dt_view_load_module
\* what dt_version() returns in the host
dt_version == 3
\* module_name of the module files of the directory
FileNames == {"lighttable", "darkroom", "map"}
\* the entry points of a module file that the loader itself calls
LoaderSlots == {"init", "init_key_accels"}
\* a module file: whether g_module_open succeeds, whether it exports
\* dt_module_dt_version, what that returns, and the entry points it exports
ModuleFiles ==
  {f \in [module_name : FileNames, opens : BOOLEAN, has_version : BOOLEAN,
          version : {0, dt_version, dt_version + 1}, caps : {{}, LoaderSlots}] :
     /\ f.has_version => f.opens
     /\ f.version = 0 <=> ~f.has_version}
\* the listings of the directory: every file name at most once
RECURSIVE ListingsOfLen(_)
ListingsOfLen(n) ==
  IF n = 0 THEN {<<>>}
  ELSE UNION { { Append(o, f) :
                   f \in {g \in ModuleFiles : \A i \in 1..(n - 1) :
                            o[i].module_name # g.module_name} } :
               o \in ListingsOfLen(n - 1) }
Listings == UNION {ListingsOfLen(n) : n \in 0..Cardinality(FileNames)}

\* one call made while loading: the callee and the module file
LoadEv(hook, f) == [hook |-> hook, module_name |-> f.module_name]

\* variant: a module of another version is loaded all the same
VersionOk_AnyVersion(f) == TRUE

\* version() != dt_version() fails the load
VersionOk(f) == f.version = dt_version

\* if(view->init) view->init(view);
\* if(darktable.gui && view->init_key_accels) view->init_key_accels(view)
InitCalls(f, gui) ==
  (IF "init" \in f.caps THEN <<LoadEv("init", f)>> ELSE <<>>)
  \o (IF gui /\ "init_key_accels" \in f.caps
      THEN <<LoadEv("init_key_accels", f)>> ELSE <<>>)

\* the calls of dt_view_load_module and its return value; "resolve" stands
\* for the g_module_symbol calls of the optional entry points
dt_view_load_module(f, gui) ==
  LET open == <<LoadEv("g_module_open", f)>>
      sym == open \o <<LoadEv("dt_module_dt_version", f)>>
      ver == sym \o <<LoadEv("version", f)>>
      close == <<LoadEv("g_module_close", f)>>
  IN  IF ~f.opens THEN [ret |-> 1, log |-> open]
      ELSE IF ~f.has_version THEN [ret |-> 1, log |-> sym \o close]
      ELSE IF ~VersionOk(f) THEN [ret |-> 1, log |-> ver \o close]
      ELSE [ret |-> 0,
            log |-> ver \o <<LoadEv("resolve", f)>> \o InitCalls(f, gui)]

\* the view record of a module that loaded; every module exports name(),
\* and the display names are those of DisplayNames
LoadedView(f) ==
  [module_name |-> f.module_name, has_name |-> TRUE,
   name |-> IF f.module_name = "map" THEN <<97>> ELSE <<66>>]

\* the loop of dt_module_load_modules over the directory: a module whose
\* load function returns non-zero is dropped, the next one is loaded
RECURSIVE LoadLoop(_, _)
LoadLoop(listing, gui) ==
  IF listing = <<>> THEN [log |-> <<>>, views |-> <<>>]
  ELSE LET R == dt_view_load_module(Head(listing), gui)
           L == LoadLoop(Tail(listing), gui)
       IN  [log |-> R.log \o <<[hook |-> "return",
                                module_name |-> Head(listing).module_name,
                                ret |-> R.ret]>> \o L.log,
            views |-> IF R.ret = 0 THEN <<LoadedView(Head(listing))>> \o L.views
                      ELSE L.views]

\* dt_view_manager_load_modules on a directory of module files
LoadModules(listing, gui) ==
  LET L == LoadLoop(listing, gui)
  IN  /\ load_order' = listing
      /\ load_log' = L.log
      /\ registry' = [loaded |-> TRUE] @@ SortModules(<<>>, L.views)
      /\ UNCHANGED <<mgrVars, imgVars, thumbVars, audioVars>>

InitLoad ==
  /\ ManagerIdle
  /\ RegistryIdle /\ ImagesIdle /\ ThumbIdle /\ AudioIdle

NextLoad ==
  /\ ~registry.loaded
  /\ \E listing \in Listings, gui \in BOOLEAN : LoadModules(listing, gui)

SpecLoad == InitLoad /\ [][NextLoad]_vars

\* ------------------------------------------------------- the active images
ImgIds == 1..MaxImg
\* dt_control_get_mouse_over_id: an image id, or a value <= 0 for no image
MouseOverIds == {-1, 0} \cup ImgIds
\* the rows of `selected_images JOIN collected_images ORDER BY c.rowid`
Selections ==
  {<<>>} \cup {<<i>> : i \in ImgIds}
         \cup {s \in {<<i, j>> : i \in ImgIds, j \in ImgIds} : s[1] # s[2]}

RaiseActiveImagesChange(op, imgid, raise, signal) ==
  images_last' =
    [op |-> op, imgid |-> imgid, raise |-> raise, signal |-> signal]

\* variant: an id that is in the list is not appended again
dt_view_active_images_add_Once(imgid, raise) ==
  /\ active_images' =
       IF \E i \in DOMAIN active_images : active_images[i] = imgid
       THEN active_images ELSE Append(active_images, imgid)
  /\ RaiseActiveImagesChange("add", imgid, raise, raise)
  /\ UNCHANGED <<mouse_over_id, selection, act_on>>
  /\ UNCHANGED <<mgrVars, regVars, thumbVars, audioVars>>

\* g_slist_append, then the signal if(raise)
dt_view_active_images_add(imgid, raise) ==
  /\ active_images' = Append(active_images, imgid)
  /\ RaiseActiveImagesChange("add", imgid, raise, raise)
  /\ UNCHANGED <<mouse_over_id, selection, act_on>>
  /\ UNCHANGED <<mgrVars, regVars, thumbVars, audioVars>>

\* variant: the signal is raised for an empty list too
dt_view_active_images_reset_NoEarlyReturn(raise) ==
  /\ active_images' = <<>>
  /\ RaiseActiveImagesChange("reset", -1, raise, raise)
  /\ UNCHANGED <<mouse_over_id, selection, act_on>>
  /\ UNCHANGED <<mgrVars, regVars, thumbVars, audioVars>>

\* returns at once when the list is empty; else frees it, and signals if(raise)
dt_view_active_images_reset(raise) ==
  /\ active_images' = <<>>
  /\ RaiseActiveImagesChange("reset", -1, raise,
                             raise /\ Len(active_images) >= 1)
  /\ UNCHANGED <<mouse_over_id, selection, act_on>>
  /\ UNCHANGED <<mgrVars, regVars, thumbVars, audioVars>>

\* variant: the active images are looked at before the mouse-over id
ImageToActOn_ActiveFirst(mouseover, active, selected) ==
  IF Len(active) > 0 THEN active[1]
  ELSE IF mouseover > 0 THEN mouseover
  ELSE IF selected # <<>> THEN selected[1]
  ELSE -1

\* the value dt_view_get_image_to_act_on computes
ImageToActOn(mouseover, active, selected) ==
  IF mouseover > 0 THEN mouseover
  ELSE IF Len(active) > 0 THEN active[1]
  ELSE IF selected # <<>> THEN selected[1]
  ELSE -1

dt_view_get_image_to_act_on ==
  /\ act_on' = ImageToActOn(mouse_over_id, active_images, selection)
  /\ RaiseActiveImagesChange("get", -1, FALSE, FALSE)
  /\ UNCHANGED <<active_images, mouse_over_id, selection>>
  /\ UNCHANGED <<mgrVars, regVars, thumbVars, audioVars>>

\* g_list_find_custom, then g_list_append when the id is not in the list
AppendNew(l, id) ==
  IF \E i \in DOMAIN l : l[i] = id THEN l ELSE Append(l, id)
RECURSIVE AppendAllFrom(_, _, _)
AppendAllFrom(l, ids, i) ==
  IF i > Len(ids) THEN l ELSE AppendAllFrom(AppendNew(l, ids[i]), ids, i + 1)

\* the ids of SELECT id FROM main.images WHERE group_id = ... AND id IN (the
\* collection): every image is in the collection; the images are all in one
\* group (same_group) or each in a group of its own; rows by ascending id
GroupRows(imgid, same_group) ==
  IF same_group THEN [i \in 1..MaxImg |-> i] ELSE <<imgid>>

\* the environment of one call: only_visible, thumbtable->mouse_inside,
\* collapsed = gui && gui->grouping && expanded_group_id != the group of the
\* image && there is a selection collection, and the grouping of the images
ActOnEnvs ==
  [only_visible : BOOLEAN, mouse_inside : BOOLEAN, collapsed : BOOLEAN,
   same_group : BOOLEAN]

\* _images_to_act_on_insert_in_list, for an image that the cache holds
images_to_act_on_insert_in_list(l, imgid, env) ==
  IF env.only_visible \/ ~env.collapsed
  THEN AppendNew(l, imgid)
  ELSE AppendAllFrom(l, GroupRows(imgid, env.same_group), 1)

RECURSIVE InsertAll(_, _, _, _)
InsertAll(l, ids, i, env) ==
  IF i > Len(ids) THEN l
  ELSE InsertAll(images_to_act_on_insert_in_list(l, ids[i], env), ids, i + 1,
                 env)

\* variant: a hovered image that is selected yields the selection wherever
\* the pointer is
ImagesSource_AnySelected(mouseover, active, selected, env) ==
  IF mouseover > 0
  THEN (IF \E i \in DOMAIN selected : selected[i] = mouseover
        THEN selected ELSE <<mouseover>>)
  ELSE IF Len(active) > 0 THEN active
  ELSE selected

\* the ids that dt_view_get_images_to_act_on inserts, in their order: the
\* columns 1 to 5 of its table
ImagesSource(mouseover, active, selected, env) ==
  IF mouseover > 0
  THEN (IF env.mouse_inside /\ \E i \in DOMAIN selected : selected[i] = mouseover
        THEN selected ELSE <<mouseover>>)
  ELSE IF Len(active) > 0 THEN active
  ELSE selected

dt_view_get_images_to_act_on(env) ==
  /\ images_last' =
       [op |-> "get_images", imgid |-> -1, raise |-> FALSE, signal |-> FALSE,
        env |-> env,
        list |-> InsertAll(<<>>, ImagesSource(mouse_over_id, active_images,
                                             selection, env), 1, env)]
  /\ UNCHANGED <<active_images, mouse_over_id, selection, act_on>>
  /\ UNCHANGED <<mgrVars, regVars, thumbVars, audioVars>>

\* the pointer moves over another thumbnail or off the thumbnails
dt_control_set_mouse_over_id(id) ==
  /\ mouse_over_id' = id
  /\ RaiseActiveImagesChange("mouse_over", id, FALSE, FALSE)
  /\ UNCHANGED <<active_images, selection, act_on>>
  /\ UNCHANGED <<mgrVars, regVars, thumbVars, audioVars>>

InitImages ==
  /\ ManagerIdle
  /\ RegistryIdle /\ ThumbIdle /\ AudioIdle
  /\ active_images = <<>>
  /\ mouse_over_id = -1
  /\ selection \in Selections
  /\ act_on = -1
  /\ images_last = [op |-> "init", imgid |-> -1, raise |-> FALSE,
                    signal |-> FALSE]

NextImages ==
  \/ \E imgid \in ImgIds, raise \in BOOLEAN :
       Len(active_images) < MaxActive /\ dt_view_active_images_add(imgid, raise)
  \/ \E raise \in BOOLEAN : dt_view_active_images_reset(raise)
  \/ dt_view_get_image_to_act_on
  \/ \E env \in ActOnEnvs : dt_view_get_images_to_act_on(env)
  \/ \E id \in MouseOverIds : dt_control_set_mouse_over_id(id)

SpecImages == InitImages /\ [][NextImages]_vars

\* -------------------------------------------------------- the audio player
\* what dt_view_audio_start meets: no player configured or no audio file
\* for the image, g_spawn_async failing, g_spawn_async succeeding
Spawns == {"none", "fail", "ok"}

AudioFrame == UNCHANGED <<mgrVars, regVars, imgVars, thumbVars>>

\* g_spawn_async with G_SPAWN_DO_NOT_REAP_CHILD stores the pid of the new
\* player; audio_player_id = imgid; g_child_watch_add on that pid.  A
\* failed spawn sets audio_player_id = -1.  The fields are overwritten
\* whether or not an earlier player is tracked.
dt_view_audio_start(imgid, spawn) ==
  /\ spawn = "ok" => Len(audio.procs) < MaxPlayers
  /\ audio' =
       IF spawn = "none"
       THEN [audio EXCEPT !.last = [op |-> "start", pid |-> 0, steps |-> <<>>]]
       ELSE IF spawn = "fail"
       THEN [audio EXCEPT !.id = -1,
                          !.last = [op |-> "start", pid |-> 0,
                                    steps |-> <<"spawn">>]]
       ELSE LET pid == Len(audio.procs) + 1
            IN  [id |-> imgid, pid |-> pid, source |-> pid,
                 procs |-> Append(audio.procs, "running"),
                 watches |-> audio.watches \cup {pid},
                 last |-> [op |-> "start", pid |-> pid,
                           steps |-> <<"spawn", "child_watch_add">>]]
  /\ AudioFrame

\* a player ends by itself; the main loop has not run its watch yet
PlayerExits(pid) ==
  /\ pid \in DOMAIN audio.procs /\ audio.procs[pid] = "running"
  /\ audio' = [audio EXCEPT !.procs[pid] = "exited",
                            !.last = [op |-> "exit", pid |-> pid,
                                      steps |-> <<>>]]
  /\ AudioFrame

\* the main loop runs the watch of a player that has ended, once, and
\* drops the watch: audio_player_id = -1; g_spawn_close_pid(pid)
audio_child_watch(pid) ==
  /\ pid \in audio.watches /\ audio.procs[pid] \in {"exited", "killed"}
  /\ audio' = [audio EXCEPT !.id = -1,
                            !.watches = @ \ {pid},
                            !.procs[pid] = "reaped",
                            !.last = [op |-> "child_watch", pid |-> pid,
                                      steps |-> <<"close_pid">>]]
  /\ AudioFrame

\* SIGKILL to a player that runs; one that has ended is left as it is
Kill(procs, pid) ==
  IF procs[pid] = "running" THEN [procs EXCEPT ![pid] = "killed"] ELSE procs

\* variant: the child watch stays attached
dt_view_audio_stop_KeepsWatch ==
  /\ audio' =
       IF audio.id = -1
       THEN [audio EXCEPT !.last = [op |-> "stop", pid |-> 0, steps |-> <<>>]]
       ELSE [audio EXCEPT !.id = -1,
                          !.procs = Kill(@, audio.pid),
                          !.last = [op |-> "stop", pid |-> audio.pid,
                                    steps |-> <<"kill", "close_pid">>]]
  /\ AudioFrame

\* if(audio_player_id == -1) return; g_source_remove(event_source);
\* kill(pid, SIGKILL); g_spawn_close_pid(pid); audio_player_id = -1
dt_view_audio_stop ==
  /\ audio' =
       IF audio.id = -1
       THEN [audio EXCEPT !.last = [op |-> "stop", pid |-> 0, steps |-> <<>>]]
       ELSE [audio EXCEPT !.id = -1,
                          !.watches = @ \ {audio.source},
                          !.procs = Kill(@, audio.pid),
                          !.last = [op |-> "stop", pid |-> audio.pid,
                                    steps |-> <<"source_remove", "kill",
                                                "close_pid">>]]
  /\ AudioFrame

InitAudio ==
  /\ ManagerIdle
  /\ RegistryIdle /\ ImagesIdle /\ ThumbIdle /\ AudioIdle

\* the calls and the callbacks all run on the main loop, one after the
\* other and in any order; the players end when they like
NextAudio ==
  \/ \E imgid \in ImgIds, spawn \in Spawns : dt_view_audio_start(imgid, spawn)
  \/ dt_view_audio_stop
  \/ \E pid \in 1..MaxPlayers : PlayerExits(pid)
  \/ \E pid \in 1..MaxPlayers : audio_child_watch(pid)

SpecAudio == InitAudio /\ [][NextAudio]_vars

\* ----------------------------------------------- the thumbnail hit test
DECORATION_SIZE_LIMIT == 40
\* dt_view_image_over_t
DT_VIEW_ERR == -1
DT_VIEW_DESERT == 0
DT_VIEW_STAR_1 == 1
DT_VIEW_STAR_2 == 2
DT_VIEW_STAR_3 == 3
DT_VIEW_STAR_4 == 4
DT_VIEW_STAR_5 == 5
DT_VIEW_REJECT == 6
DT_VIEW_GROUP == 7
DT_VIEW_AUDIO == 8
DT_VIEW_ALTERED == 9
DT_VIEW_END == 10
Stars == DT_VIEW_STAR_1..DT_VIEW_STAR_5

\* Lengths are held as integers in units of 1/Scale pixel, which makes
\* every coefficient of the layout (0.91/20, 0.955, 0.93, 0.045, 2.5, 1.5,
\* 22.5, ...) exact; the rounding of the float arithmetic is not modelled.
Scale == 8000
Abs(a) == IF a < 0 THEN -a ELSE a
fminf(a, b) == IF a < b THEN a ELSE b

\* thumbnails at the size limit and above it; single image (1) and grid (2);
\* darktable.gui->dpi_factor in tenths
Widths == {DECORATION_SIZE_LIMIT, 88}
Zooms == {1, 2}
DpiTenths == {4, 10}
Thumbs ==
  [width : Widths, height : Widths, zoom : Zooms,
   px : 0..MaxPx, py : 0..MaxPy, dpi : DpiTenths]

\* r1 = fminf(DT_PIXEL_APPLY_DPI(20.0f) / 2.0f, 0.91 * width / 20.0f)
R1(t) == fminf(Scale * t.dpi, 364 * t.width)

\* y of the row of stars
RowY(t, extended) ==
  IF t.zoom # 1
  THEN (IF extended THEN 7440 * t.height ELSE 7640 * t.height - R1(t))
  ELSE 9 * R1(t)

\* x of star `k`, as the switch computes it for `what`
StarX(t, k) ==
  IF t.zoom # 1
  THEN 4000 * t.width - 5 * R1(t) + (k - DT_VIEW_STAR_1) * 5 * (R1(t) \div 2)
  ELSE 3 * R1(t) + (2 * (k - DT_VIEW_STAR_1) + 3) * 5 * (R1(t) \div 4)

\* (px - x) * (px - x) + (py - y) * (py - y) < r * r; the two tests in front
\* follow from it and keep the products small
InDisc(t, x, y, r) ==
  LET dx == Scale * t.px - x
      dy == Scale * t.py - y
  IN  /\ Abs(dx) < r /\ Abs(dy) < r
      /\ dx * dx + dy * dy < r * r

\* fabs(px - x) <= f * r1 && fabs(py - y) <= f * r1, f in tenths
InSquare(t, x, y, tenths) ==
  /\ 10 * Abs(Scale * t.px - x) <= tenths * R1(t)
  /\ 10 * Abs(Scale * t.py - y) <= tenths * R1(t)

\* variant: the search loop places star i at its own x in every zoom mode
SearchX_OwnStar(t, i, what) == StarX(t, i)

\* x in the search loop: star i in the grid, but the star `what` in single
\* image mode (zoom == 1)
SearchX(t, i, what) == StarX(t, IF t.zoom # 1 THEN i ELSE what)

\* "Search which star is hovered by cursor": the last star whose test passes
HoveredStar(t, what, active, extended) ==
  LET hits == {i \in Stars :
                 InDisc(t, SearchX(t, i, what), RowY(t, extended), R1(t))}
  IN  IF active = 0 \/ hits = {} THEN -1
      ELSE CHOOSE i \in hits : \A j \in hits : j <= i

\* the return value of dt_view_process_image_over with cr == NULL
dt_view_process_image_over(t, what, active, extended) ==
  LET r1 == R1(t)
      y == RowY(t, extended)
      star == HoveredStar(t, what, active, extended)
      hover ==
        CASE what \in Stars ->
               active # 0 /\ star > what - DT_VIEW_STAR_1
          [] what = DT_VIEW_REJECT ->
               active # 0
               /\ InDisc(t, IF t.zoom # 1 THEN 360 * t.width + r1 ELSE 3 * r1,
                         y, r1)
          [] what = DT_VIEW_GROUP ->
               active # 0
               /\ IF t.zoom # 1
                  THEN InSquare(t, 7640 * t.width - 9 * (r1 \div 2) + r1,
                                360 * t.height + r1, 9)
                  ELSE InSquare(t, 45 * (r1 \div 2) + r1, (y - r1) + r1, 9)
          [] what = DT_VIEW_AUDIO ->
               active # 0
               /\ IF t.zoom # 1
                  THEN InSquare(t, 7640 * t.width - 6 * r1,
                                360 * t.height + r1, 12)
                  ELSE InSquare(t, 53 * (r1 \div 2), y, 12)
          [] what = DT_VIEW_ALTERED ->
               active # 0
               /\ IF t.zoom # 1
                  THEN InSquare(t, 7640 * t.width - r1,
                                360 * t.height + r1, 12)
                  ELSE InSquare(t, 41 * (r1 \div 2), y, 12)
          [] OTHER -> FALSE
  IN  IF hover THEN 1 ELSE 0

\* the image record: missing (img == NULL), or with its flags: stars is
\* flags & 0x7, the rating, and 6 for a rejected image; grouped is what the
\* database says of the image id
Images ==
  { [present |-> FALSE, stars |-> 0, rejected |-> FALSE, has_wav |-> FALSE,
     grouped |-> FALSE],
    [present |-> TRUE, stars |-> 3, rejected |-> FALSE, has_wav |-> FALSE,
     grouped |-> FALSE],
    [present |-> TRUE, stars |-> 6, rejected |-> TRUE, has_wav |-> TRUE,
     grouped |-> TRUE] }

\* variant: a star that the rating of the image fills counts as hovered
dt_view_process_image_over_cr_StaticHovers(t, what, active, extended, cr, img) ==
  LET star == HoveredStar(t, what, active, extended)
      hit == dt_view_process_image_over(t, what, active, extended) # 0
      filled == /\ cr /\ img.present /\ what \in Stars
                /\ img.stars > what - DT_VIEW_STAR_1
                /\ (star > what - DT_VIEW_STAR_1 \/ star = -1)
  IN  [ret |-> IF hit \/ filled THEN 1 ELSE 0, draw |-> <<>>]

\* dt_view_process_image_over with its arguments cr (TRUE for a drawing
\* context, FALSE for NULL) and img: the return value and what is drawn.
\* The tests that set ret are those of the call with cr == NULL.
dt_view_process_image_over_cr(t, what, active, extended, cr, img) ==
  LET star == HoveredStar(t, what, active, extended)
      hit == dt_view_process_image_over(t, what, active, extended) # 0
      rejected == img.present /\ img.rejected
      draw ==
        CASE what \in Stars ->
               <<"star",
                 IF active # 0 /\ star > what - DT_VIEW_STAR_1
                 THEN "fill_hovered"
                 ELSE IF /\ img.present
                         /\ img.stars > what - DT_VIEW_STAR_1
                         /\ (star > what - DT_VIEW_STAR_1 \/ star = -1)
                 THEN "fill_static"
                 ELSE "stroke">>
          [] what = DT_VIEW_REJECT ->
               (IF rejected THEN <<"red">> ELSE <<>>)
               \o (IF hit THEN <<"circle">> ELSE <<>>)
               \o (IF rejected THEN <<"wide">> ELSE <<>>) \o <<"cross">>
          [] what = DT_VIEW_GROUP -> <<"grouping">>
          [] what = DT_VIEW_AUDIO -> <<"audio">>
          [] what = DT_VIEW_ALTERED -> <<"altered">>
          [] OTHER -> <<>>
  IN  [ret |-> IF hit THEN 1 ELSE 0, draw |-> IF cr THEN draw ELSE <<>>]

\* variant: the loop goes on after a hit and returns the last one
RECURSIVE FirstOver_LastHit(_, _, _)
FirstOver_LastHit(t, i, extended) ==
  IF i >= DT_VIEW_END THEN DT_VIEW_DESERT
  ELSE LET rest == FirstOver_LastHit(t, i + 1, extended)
       IN  IF rest # DT_VIEW_DESERT THEN rest
           ELSE IF dt_view_process_image_over(t, i, 1, extended) # 0 THEN i
           ELSE DT_VIEW_DESERT

\* the loop `for(i = DT_VIEW_ERR; i < DT_VIEW_END; i++)`: the first hit
RECURSIVE FirstOver(_, _, _)
FirstOver(t, i, extended) ==
  IF i >= DT_VIEW_END THEN DT_VIEW_DESERT
  ELSE IF dt_view_process_image_over(t, i, 1, extended) # 0 THEN i
  ELSE FirstOver(t, i + 1, extended)

\* variant: the test of the width against DECORATION_SIZE_LIMIT is missing
dt_view_guess_image_over_NoLimit(t, show_overlays, extended) ==
  LET in_metadata_zone ==
        (t.px < t.width /\ t.py < t.height \div 2) \/ t.zoom > 1
      draw_metadata == show_overlays \/ in_metadata_zone
  IN  IF draw_metadata THEN FirstOver(t, DT_VIEW_ERR, extended)
      ELSE DT_VIEW_DESERT

\* variant: the zoom mode that opens the gate is the single image one
InMetadataZone_SingleImage(t) ==
  (t.px < t.width /\ t.py < t.height \div 2) \/ t.zoom = 1

\* "active if zoom>1 or in the proper area":
\* in_metadata_zone = (px < width && py < height / 2) || (zoom > 1)
InMetadataZone(t) ==
  (t.px < t.width /\ t.py < t.height \div 2) \/ t.zoom > 1

\* draw_metadata && width > DECORATION_SIZE_LIMIT in dt_view_guess_image_over
GuessGate(t, show_overlays) ==
  (show_overlays \/ InMetadataZone(t)) /\ t.width > DECORATION_SIZE_LIMIT

dt_view_guess_image_over(t, show_overlays, extended) ==
  IF GuessGate(t, show_overlays)
  THEN FirstOver(t, DT_VIEW_ERR, extended)
  ELSE DT_VIEW_DESERT

ProcessImageOver(what, active, extended) ==
  /\ over' = [op |-> "process", what |-> what, active |-> active,
              extended |-> extended, show_overlays |-> FALSE,
              attempted |-> TRUE,
              ret |-> dt_view_process_image_over(thumb, what, active, extended)]
  /\ UNCHANGED <<thumb, mgrVars, regVars, imgVars, audioVars>>

GuessImageOver(show_overlays, extended) ==
  /\ over' = [op |-> "guess", what |-> DT_VIEW_DESERT, active |-> 1,
              extended |-> extended, show_overlays |-> show_overlays,
              attempted |-> GuessGate(thumb, show_overlays),
              ret |-> dt_view_guess_image_over(thumb, show_overlays, extended)]
  /\ UNCHANGED <<thumb, mgrVars, regVars, imgVars, audioVars>>

InitThumb ==
  /\ ManagerIdle
  /\ RegistryIdle /\ ImagesIdle /\ AudioIdle
  /\ thumb \in {t \in Thumbs : t.height <= t.width}
  /\ over = [op |-> "init", what |-> 0, active |-> 0, extended |-> FALSE,
             show_overlays |-> FALSE, attempted |-> FALSE, ret |-> 0]

\* the hit test is a function of its arguments and of two settings: it is
\* applied once to every thumbnail and pointer of Init
NextThumb ==
  /\ over.op = "init"
  /\ \/ \E what \in DT_VIEW_ERR..(DT_VIEW_END - 1), active \in 0..1,
          extended \in BOOLEAN : ProcessImageOver(what, active, extended)
     \/ \E show_overlays \in BOOLEAN, extended \in BOOLEAN :
          GuessImageOver(show_overlays, extended)

SpecThumb == InitThumb /\ [][NextThumb]_vars

\* ---------------------------------- the hit tests of dt_view_image_expose
\* vals->mouse_over, vals->full_preview, darktable.gui->show_overlays, the
\* no_deco that image_only and vals->no_deco give, the conf value
\* extended_thumb_overlay, and the image.  The inputs that the code does not
\* read take one value: full_preview behind a true mouse_over (the || stops
\* there), the conf value and the image when no_deco keeps the glyphs away
ExposeInputs ==
  {e \in [mouse_over : BOOLEAN, full_preview : BOOLEAN,
          show_overlays : BOOLEAN, no_deco : BOOLEAN, extended : BOOLEAN,
          img : Images] :
     /\ e.mouse_over => ~e.full_preview
     /\ e.no_deco => ~e.extended /\ ~e.img.present}

\* if(vals->mouse_over || full_preview || show_overlays || zoom == 1)
\*   if(draw_metadata && width > DECORATION_SIZE_LIMIT)
\* with draw_metadata = !no_deco && (show_overlays || in_metadata_zone)
ExposeGate(t, e) ==
  /\ e.mouse_over \/ e.full_preview \/ e.show_overlays \/ t.zoom = 1
  /\ ~e.no_deco /\ (e.show_overlays \/ InMetadataZone(t))
  /\ t.width > DECORATION_SIZE_LIMIT

\* for(k = 0; k < 5; k++) if(dt_view_process_image_over(star, ...))
\*   *image_over = star;   io is the value of *image_over
RECURSIVE ExposeStars(_, _, _, _, _, _)
ExposeStars(t, k, active, extended, img, io) ==
  IF k > DT_VIEW_STAR_5 THEN io
  ELSE ExposeStars(t, k + 1, active, extended, img,
                   IF dt_view_process_image_over_cr(t, k, active, extended,
                                                    TRUE, img).ret # 0
                   THEN k ELSE io)

\* what dt_view_image_expose leaves in *image_over, which the caller has set
\* to DT_VIEW_DESERT: the assignments in the order of the code
ExposeImageOver(t, e) ==
  LET active == IF e.mouse_over \/ t.zoom = 1 THEN 1 ELSE 0
      has_img == IF e.img.present THEN 1 ELSE 0
      hit(what, a) ==
        dt_view_process_image_over_cr(t, what, a, e.extended, TRUE,
                                      e.img).ret # 0
      io1 == IF e.img.present /\ ~e.img.rejected
             THEN ExposeStars(t, DT_VIEW_STAR_1, active, e.extended, e.img,
                              DT_VIEW_DESERT)
             ELSE DT_VIEW_DESERT
      io2 == IF hit(DT_VIEW_REJECT, active) THEN DT_VIEW_REJECT ELSE io1
      io3 == IF e.img.present /\ e.img.has_wav /\ hit(DT_VIEW_AUDIO, active)
             THEN DT_VIEW_AUDIO ELSE io2
      io4 == IF e.img.grouped /\ hit(DT_VIEW_GROUP, has_img)
             THEN DT_VIEW_GROUP ELSE io3
  IN  IF ExposeGate(t, e) THEN io4 ELSE DT_VIEW_DESERT

dt_view_image_expose(e) ==
  /\ over' = [op |-> "expose", what |-> DT_VIEW_DESERT,
              active |-> IF e.mouse_over \/ thumb.zoom = 1 THEN 1 ELSE 0,
              extended |-> e.extended, show_overlays |-> e.show_overlays,
              attempted |-> ExposeGate(thumb, e),
              ret |-> ExposeImageOver(thumb, e), e |-> e]
  /\ UNCHANGED <<thumb, mgrVars, regVars, imgVars, audioVars>>

\* the call with a drawing context or without one, and with an image record
DrawImageOver(what, active, extended, cr, img) ==
  /\ over' = [op |-> "draw", what |-> what, active |-> active,
              extended |-> extended, show_overlays |-> FALSE,
              attempted |-> TRUE, cr |-> cr, img |-> img,
              out |-> dt_view_process_image_over_cr(thumb, what, active,
                                                   extended, cr, img)]
  /\ UNCHANGED <<thumb, mgrVars, regVars, imgVars, audioVars>>

\* the thumbnails that are wider than high, at the smallest dpi_factor: all
\* the glyphs are within reach of the pointer in one zoom mode or the other
InitDraw ==
  /\ ManagerIdle
  /\ RegistryIdle /\ ImagesIdle /\ AudioIdle
  /\ thumb \in {t \in Thumbs : /\ t.height < t.width
                               /\ \A d \in DpiTenths : t.dpi <= d}
  /\ over = [op |-> "init", what |-> 0, active |-> 0, extended |-> FALSE,
             show_overlays |-> FALSE, attempted |-> FALSE, ret |-> 0]

NextDraw ==
  /\ over.op = "init"
  /\ \E what \in DT_VIEW_DESERT..DT_VIEW_ALTERED, active \in 0..1,
        extended \in BOOLEAN, cr \in BOOLEAN, img \in Images :
       DrawImageOver(what, active, extended, cr, img)

SpecDraw == InitDraw /\ [][NextDraw]_vars

\* one dpi_factor, the smallest of DpiTenths
InitExpose ==
  /\ ManagerIdle
  /\ RegistryIdle /\ ImagesIdle /\ AudioIdle
  /\ thumb \in {t \in Thumbs : /\ t.height <= t.width
                               /\ \A d \in DpiTenths : t.dpi <= d}
  /\ over = [op |-> "init", what |-> 0, active |-> 0, extended |-> FALSE,
             show_overlays |-> FALSE, attempted |-> FALSE, ret |-> 0]

\* the two callers of the hit test, each applied once to every thumbnail
\* and pointer of InitExpose
NextExpose ==
  /\ over.op = "init"
  /\ \/ \E e \in ExposeInputs : dt_view_image_expose(e)
     \/ \E show_overlays \in BOOLEAN, extended \in BOOLEAN :
          GuessImageOver(show_overlays, extended)

SpecExpose == InitExpose /\ [][NextExpose]_vars

\* ------------------------------------------------- reading the last call
IsSwitch == last.op = "switch"
NotFound == IsSwitch /\ last.name # "" /\ last.nv = NULL
ToNone == IsSwitch /\ last.name = ""
ToView == IsSwitch /\ last.nv \in Views
\* the calls of try_enter that returned non-zero
Refusals ==
  {i \in DOMAIN trace : trace[i].hook = "try_enter" /\ trace[i].ret # 0}
Refused == ToView /\ Refusals # {}
Completed == ToView /\ Refusals = {}
\* positions in the trace of the calls of a view's / a plugin's entry point
ViewHook(hook, v) ==
  {i \in DOMAIN trace : trace[i].hook = hook /\ trace[i].view = v}
LibHook(hook, p) ==
  {i \in DOMAIN trace : trace[i].hook = hook /\ trace[i].lib = p}
\* an entry point that is present is called once, an absent one never
Once(present, calls) == Cardinality(calls) = IF present THEN 1 ELSE 0
\* calls into views, plugins or signal observers: the places where the
\* active-view pointer can be read while a call is in progress
IsHook(e) == e.hook \in ViewSlots \cup LibSlots \cup {"gui_cleanup", "VIEW_CHANGED"}
\* the pointer read there is none, or a view that is entered and has not left
ObservedOk(e) == e.cur = NULL \/ e.cur \in e.live

\* C1: entry refusal.  When try_enter of the requested view B returns a
\* non-zero code e, the switch returns exactly e, the active view is the one
\* it was before, no leave, enter, connect_key_accels, view_leave or
\* view_enter hook is called, and no accelerator closure list is cleared.
C1_EntryRefusal ==
  [][ Refused' =>
        /\ \A i \in Refusals' : trace'[i].view = last'.nv /\ ret' = trace'[i].ret
        /\ current_view' = current_view
        /\ lib_accels' = lib_accels
        /\ lib_gui' = lib_gui
        /\ view_live' = view_live
        /\ \A i \in DOMAIN trace' :
             trace'[i].hook \notin
               {"leave", "enter", "connect_key_accels", "view_leave",
                "view_enter", "accel_disconnect", "gui_cleanup"} ]_vars

C1_Witness ==
  /\ Refused
  /\ last.old \in Views /\ last.old # last.nv
  /\ ret = 2
  /\ current_view = last.old
  /\ \E p \in Plugins : lib_accels[p] > 0

\* C2: successful switch.  A switch from an active view A to a view B
\* (B = A included) whose try_enter is absent or returns 0 ends with B
\* active; the leave entry point of A, when A has one, is called exactly
\* once, the enter entry point of B, when B has one, exactly once, the
\* leave before the enter, and no other view is left or entered.
C2_SuccessfulSwitch ==
  (Completed /\ last.old \in Views) =>
    /\ current_view = last.nv
    /\ Once("leave" \in view_caps[last.old], ViewHook("leave", last.old))
    /\ Once("enter" \in view_caps[last.nv], ViewHook("enter", last.nv))
    /\ \A i \in ViewHook("leave", last.old), j \in ViewHook("enter", last.nv) :
         i < j
    /\ \A i \in DOMAIN trace :
         /\ trace[i].hook = "leave" => trace[i].view = last.old
         /\ trace[i].hook = "enter" => trace[i].view = last.nv

C2_Witness ==
  /\ Completed
  /\ last.old \in Views /\ last.old # last.nv
  /\ current_view = last.nv
  /\ \E i, j, k \in DOMAIN trace :
       /\ i < j /\ j < k
       /\ trace[i].hook = "try_enter" /\ trace[i].ret = 0
       /\ trace[j].hook = "leave" /\ trace[j].view = last.old
       /\ trace[k].hook = "enter" /\ trace[k].view = last.nv

\* C3 as stated: a switch to none from an active view A calls A's leave
\* once, the view_leave hook of every overlay module (that has one) once,
\* and ends with no active view.
C3_EveryModuleLeaves ==
  (ToNone /\ last.old \in Views) =>
    /\ Once("leave" \in view_caps[last.old], ViewHook("leave", last.old))
    /\ \A p \in Plugins :
         Once("view_leave" \in libs[p].caps, LibHook("view_leave", p))
    /\ current_view = NULL

\* C3 amended: a switch to none from an active view A calls A's leave once,
\* calls view_leave(A, none) once on every overlay module that is visible in
\* A, on no module that is not visible in A, and ends with no active view.
C3_SwitchToNone ==
  (ToNone /\ last.old \in Views) =>
    /\ Once("leave" \in view_caps[last.old], ViewHook("leave", last.old))
    /\ \A p \in Plugins :
         /\ Once("view_leave" \in libs[p].caps /\ last.old \in libs[p].views,
                 LibHook("view_leave", p))
         /\ \A i \in LibHook("view_leave", p) :
              trace[i].a = last.old /\ trace[i].b = NULL
    /\ current_view = NULL

C3_Witness ==
  /\ ToNone /\ last.old \in Views
  /\ current_view = NULL
  /\ ViewHook("leave", last.old) # {}
  /\ \E p, q \in Plugins :
       /\ LibHook("view_leave", p) # {}
       /\ "view_leave" \in libs[q].caps /\ last.old \notin libs[q].views
       /\ LibHook("view_leave", q) = {}

\* C4: switching to none while no view is active calls no view hook, no
\* overlay-module hook and no teardown, returns 0, and no view is active.
C4_NoneToNone ==
  (ToNone /\ last.old = NULL) =>
    /\ \A i \in DOMAIN trace :
         trace[i].hook \in {"undo_clear", "destroy_children"}
    /\ ret = 0
    /\ current_view = NULL

C4_Witness ==
  /\ ToNone /\ last.old = NULL
  /\ ret = 0 /\ current_view = NULL
  /\ \E p \in Plugins : ~lib_gui[p]

C6_ObservedEverywhere ==
  \A i \in DOMAIN trace : IsHook(trace[i]) => ObservedOk(trace[i])

\* C6 amended: between the calls into the view manager, and in every view
\* hook, dispatch handler and signal observer, the active-view pointer is
\* none or a view that is entered and has not left; only the overlay-module
\* hooks that a switch calls between the leave of the old view and the enter
\* of the new one, and the view() type query of the new view that follows
\* the assignment of the pointer, read the old view after its leave or the
\* new view before its enter.
C6_ActiveViewPointer ==
  /\ current_view = NULL \/ current_view \in view_live
  /\ \A i \in DOMAIN trace :
       (IsHook(trace[i]) /\ ~ObservedOk(trace[i])) =>
         /\ IsSwitch
         /\ trace[i].lib # 0 \/ trace[i].hook = "view"
         /\ trace[i].cur \in {last.old, last.nv}
         /\ \A j \in 1..i : trace[j].hook # "enter"

C6_Witness ==
  /\ Completed /\ last.old \in Views /\ last.old # last.nv
  /\ current_view = last.nv /\ view_live = {last.nv}
  /\ \E i, j \in DOMAIN trace :
       /\ trace[i].hook = "view_leave" /\ trace[i].cur = last.old
       /\ trace[j].hook = "view_enter" /\ trace[j].cur = last.nv
       /\ ~ObservedOk(trace[i]) /\ ~ObservedOk(trace[j])

\* C7: unresolvable name.  dt_view_manager_switch with a non-empty name of
\* no loaded view returns 1 and changes nothing: the active view and the
\* overlay modules are as before, no hook is called, undo is not cleared
\* and no signal is raised.
C7_UnresolvableName ==
  [][ NotFound' =>
        /\ ret' = 1
        /\ trace' = <<>>
        /\ UNCHANGED <<current_view, lib_accels, lib_gui, view_live>> ]_vars

C7_Witness ==
  /\ NotFound /\ last.name = "nosuch"
  /\ ret = 1 /\ trace = <<>>
  /\ current_view \in Views /\ current_view = last.old

\* C8: only the entry guard fails a switch.  dt_view_manager_switch_by_view
\* returns 0 for a switch to none and for a switch to a view whose
\* try_enter is absent or returns 0; it returns non-zero only with the
\* non-zero value try_enter returned; when it returns 0 the active view is
\* the requested one.
C8_OnlyGuardFails ==
  (IsSwitch /\ ~NotFound) =>
    /\ ToNone => ret = 0
    /\ (ToView /\ Refusals = {}) => ret = 0
    /\ ret # 0 =>
         \E i \in Refusals : trace[i].ret = ret /\ trace[i].view = last.nv
    /\ ret = 0 => current_view = last.nv

C8_Witness ==
  /\ ToView /\ ret = 0
  /\ last.old # last.nv
  /\ current_view = last.nv
  /\ \E i \in DOMAIN trace : trace[i].hook = "try_enter" /\ trace[i].ret = 0

\* C9: first-responder button press.  Once the button_pressed handler of an
\* overlay module reports the event handled, no handler of a later module
\* and not the handler of the active view is called, and the dispatcher
\* returns 1.
C9_PressFirstResponder ==
  last.op = "button_pressed" =>
    \A i \in DOMAIN trace :
      (trace[i].lib # 0 /\ trace[i].ret = 1) => (i = Len(trace) /\ ret = 1)

C9_Witness ==
  /\ last.op = "button_pressed" /\ ret = 1
  /\ Len(trace) = 2
  /\ trace[1].lib # 0 /\ trace[1].ret = 0
  /\ trace[2].lib # 0 /\ trace[2].ret = 1
  /\ \E p \in Plugins :
       /\ p < trace[2].lib
       /\ "button_pressed" \in libs[p].caps /\ current_view \in libs[p].views
  /\ "button_pressed" \in view_caps[current_view]

\* C10: first-responder button release.  The traversal of the overlay
\* modules stops at the first module whose button_released handler reports
\* the event handled: no handler of a later module is called.
C10_ReleaseFirstResponder ==
  last.op = "button_released" =>
    \A i, j \in DOMAIN trace :
      (trace[i].lib # 0 /\ trace[i].ret = 1 /\ i < j) => trace[j].lib = 0

\* ------------------------------------------- reading the last event dispatch
DispatchOps ==
  {"mouse_enter", "mouse_leave", "mouse_moved", "button_pressed",
   "button_released", "key_pressed", "key_released", "scrolled",
   "scrollbar_changed", "reset"}
\* the calls of overlay-module handlers, and those that reported handled
LibEvents == {i \in DOMAIN trace : trace[i].lib # 0}
Claimed == {i \in LibEvents : trace[i].ret = 1}
\* plugin p is visible in the active view and has the handler
Reaches(p, slot) == slot \in libs[p].caps /\ current_view \in libs[p].views

\* C11: fall-through result.  For button press and for button release, when
\* no visible overlay module reports the event handled, the handler of the
\* active view is called exactly once and the dispatcher returns what that
\* handler returned (0 when the view has no handler).
C11_FallThroughResult ==
  (last.op \in {"button_pressed", "button_released"}
   /\ current_view # NULL /\ Claimed = {}) =>
    /\ Once(last.op \in view_caps[current_view],
            ViewHook(last.op, current_view))
    /\ \A i \in ViewHook(last.op, current_view) : ret = trace[i].ret
    /\ last.op \notin view_caps[current_view] => ret = 0

\* C12: broadcast-OR dispatch.  For pointer motion and pointer leave, the
\* handler of every overlay module that is visible in the active view and
\* has one is called exactly once, whatever the modules before it returned,
\* no other module is called, and the handler of the active view is called
\* (once, after the modules) if and only if no module returned true.
C12_BroadcastOr ==
  (last.op \in {"mouse_moved", "mouse_leave"} /\ current_view # NULL) =>
    /\ \A p \in Plugins : Once(Reaches(p, last.op), LibHook(last.op, p))
    /\ \A i \in DOMAIN trace : trace[i].hook = last.op
    /\ Once(last.op \in view_caps[current_view] /\ Claimed = {},
            ViewHook(last.op, current_view))
    /\ \A i \in ViewHook(last.op, current_view) : i = Len(trace)

C12_Witness ==
  /\ last.op = "mouse_moved" /\ current_view \in Views
  /\ "mouse_moved" \in view_caps[current_view]
  /\ Len(trace) = 2
  /\ trace[1].lib # 0 /\ trace[1].ret = 1
  /\ trace[2].lib # 0 /\ trace[2].lib < trace[1].lib
  /\ ViewHook("mouse_moved", current_view) = {}

\* C13: keyboard events bypass the overlay chain.  dt_view_manager_key_pressed
\* and dt_view_manager_key_released call no handler of an overlay module;
\* they call only the key handler of the active view, once, and return its
\* result, or 0 when the handler is absent or no view is active.
C13_KeysBypassModules ==
  last.op \in {"key_pressed", "key_released"} =>
    /\ LibEvents = {}
    /\ \A i \in DOMAIN trace :
         trace[i].hook = last.op /\ trace[i].view = current_view
    /\ current_view = NULL => (trace = <<>> /\ ret = 0)
    /\ current_view # NULL =>
         /\ Once(last.op \in view_caps[current_view],
                 ViewHook(last.op, current_view))
         /\ \A i \in ViewHook(last.op, current_view) : ret = trace[i].ret
         /\ last.op \notin view_caps[current_view] => ret = 0

C13_Witness ==
  /\ last.op = "key_released" /\ current_view \in Views
  /\ \E p \in Plugins : Reaches(p, "button_pressed") /\ Reaches(p, "mouse_moved")
  /\ Len(trace) = 1 /\ trace[1].hook = "key_released"
  /\ trace[1].view = current_view /\ trace[1].ret = 1
  /\ ret = 1

\* C14: no active view.  With no active view every dispatch entry point
\* (mouse enter, leave and moved, button pressed and released, key pressed
\* and released, scrolled, scrollbar changed, reset) calls no handler of a
\* view or of an overlay module, leaves the state of the views and of the
\* modules as it is, and returns 0 where it returns a value.
C14_NoActiveView ==
  [][ (last'.op \in DispatchOps /\ current_view = NULL) =>
        /\ trace' = <<>>
        /\ ret' = 0
        /\ UNCHANGED <<current_view, view_caps, libs, lib_accels, lib_gui,
                       view_live>> ]_vars

C14_Witness ==
  /\ last.op = "reset" /\ last.old = NULL
  /\ current_view = NULL /\ trace = <<>> /\ ret = 0
  /\ "reset" \in view_caps["lighttable"]
  /\ \E p \in Plugins : ~lib_gui[p]

\* ------------------------------------------------------ reading the registry
\* the listing `order` with its entries exchanged by the permutation f
Permuted(order, f) == [i \in DOMAIN order |-> order[f[i]]]
\* view a may stand before view b: a view of view_order before the views
\* behind it in view_order and before every other view, the other views by
\* ascending display name
MayPrecede(a, b) ==
  \/ ViewOrderPos(a.module_name) < ViewOrderPos(b.module_name)
  \/ /\ ViewOrderPos(a.module_name) = n_view_order
     /\ ViewOrderPos(b.module_name) = n_view_order
     /\ strcmp(a.name, b.name) <= 0

\* C15: registry order.  For every set of loaded views and every order the
\* directory lists them in, the registry holds lighttable, then darkroom,
\* then the other views by ascending case-sensitive display name, and the
\* registry is the same for every permutation of the listing.
C15_RegistryOrder ==
  registry.loaded =>
    /\ ~registry.fault
    /\ Len(registry.views) = Len(load_order)
    /\ \A i, j \in DOMAIN registry.views :
         i < j => MayPrecede(registry.views[i], registry.views[j])
    /\ \A f \in Permutations(DOMAIN load_order) :
         SortModules(<<>>, Permuted(load_order, f)).views = registry.views

\* ----------------------------------------------- reading the active images
NoRepeat(l) == \A i, j \in DOMAIN l : i # j => l[i] # l[j]
Ids(l) == {l[i] : i \in DOMAIN l}

\* C16 as stated: whenever the active images are not empty,
\* dt_view_get_image_to_act_on returns the first of them, whatever the
\* mouse-over id is.
C16_ActiveImagesFirst ==
  (images_last.op = "get" /\ active_images # <<>>) =>
    act_on = active_images[1]

\* C16 amended: dt_view_get_image_to_act_on returns the mouse-over id when
\* an image is hovered (the id is > 0), whatever the active images are;
\* when no image is hovered and the active images are not empty it returns
\* the first of them, before any selected image.
C16_ActOnPrecedence ==
  images_last.op = "get" =>
    /\ mouse_over_id > 0 => act_on = mouse_over_id
    /\ (mouse_over_id <= 0 /\ active_images # <<>>) =>
         act_on = active_images[1]

C16_Witness ==
  /\ images_last.op = "get"
  /\ mouse_over_id <= 0
  /\ Len(active_images) >= 2
  /\ selection # <<>> /\ selection[1] # active_images[1]
  /\ act_on = active_images[1]

\* C17 as stated: after any sequence of dt_view_active_images_add and
\* dt_view_active_images_reset calls no image id occurs twice in the
\* active images.
C17_DuplicateFree == NoRepeat(active_images)

\* C17 amended: the active images are a sequence in insertion order.
\* dt_view_active_images_add appends the id at the end, whether or not it
\* is in the list, so an id that is added again occurs again;
\* the list stays free of repeats as long as no id that is in it is added;
\* dt_view_active_images_reset empties the list, and no other call
\* changes it.
C17_InsertionOrder ==
  [][ /\ images_last'.op = "add" =>
           /\ active_images' = Append(active_images, images_last'.imgid)
           /\ (NoRepeat(active_images)
               /\ images_last'.imgid \notin Ids(active_images)) =>
                NoRepeat(active_images')
      /\ images_last'.op = "reset" => active_images' = <<>>
      /\ images_last'.op \in {"get", "get_images", "mouse_over"} =>
           active_images' = active_images ]_vars

C17_Witness ==
  /\ images_last.op = "add" /\ images_last.imgid = 1
  /\ active_images = <<1, 2, 1>>

\* -------------------------------------------------- reading the hit test
\* the pointer is within star k as the switch of dt_view_process_image_over
\* draws it: the disc of radius r1 around (StarX, RowY); it is at its centre
PointerInStar(k) ==
  InDisc(thumb, StarX(thumb, k), RowY(thumb, over.extended), R1(thumb))
PointerAtCentre(k) ==
  /\ Scale * thumb.px = StarX(thumb, k)
  /\ Scale * thumb.py = RowY(thumb, over.extended)

\* C18: star hit test in single-image mode (zoom == 1).  With the control
\* active and the pointer at the centre of star k, or anywhere within
\* star k, dt_view_process_image_over called for star k reports hovered,
\* and called for each of the other four stars reports not hovered.
C18_StarHitTest ==
  (over.op = "process" /\ thumb.zoom = 1 /\ over.active = 1
   /\ over.what \in Stars) =>
    \A k \in Stars :
      (PointerAtCentre(k) \/ PointerInStar(k)) =>
        (over.ret = 1 <=> over.what = k)

C18_Witness ==
  /\ over.op = "process" /\ thumb.zoom = 1 /\ over.active = 1
  /\ PointerAtCentre(DT_VIEW_STAR_3)
  /\ over.what = DT_VIEW_STAR_3 /\ over.ret = 1

\* C19 as stated: for a thumbnail width at or below DECORATION_SIZE_LIMIT,
\* dt_view_process_image_over reports not hovered for every glyph and
\* dt_view_guess_image_over reports none, wherever the pointer is.
C19_NothingHoveredWhenSmall ==
  thumb.width <= DECORATION_SIZE_LIMIT =>
    /\ over.op = "process" => over.ret = 0
    /\ over.op = "guess" => over.ret = DT_VIEW_DESERT

\* C19 amended: for a thumbnail width at or below DECORATION_SIZE_LIMIT,
\* dt_view_guess_image_over reports none for every pointer position, zoom
\* mode and overlay setting: it does not call the classification.
\* dt_view_process_image_over itself does not look at the size limit.
C19_GuessSuppressed ==
  (over.op = "guess" /\ thumb.width <= DECORATION_SIZE_LIMIT) =>
    over.ret = DT_VIEW_DESERT

\* the pointer is on star 3 of a thumbnail at the size limit, in the grid
C19_Witness ==
  /\ over.op = "guess" /\ thumb.width = DECORATION_SIZE_LIMIT
  /\ thumb.zoom > 1
  /\ dt_view_process_image_over(thumb, DT_VIEW_STAR_3, 1, over.extended) = 1
  /\ over.ret = DT_VIEW_DESERT

\* C20: missing capabilities are transparent.  Whatever entry points a
\* loaded view lacks (name, view, enter, leave, the input handlers, ...),
\* the view manager never calls an entry point that is absent: every call
\* into a view is a call of an entry point the view has, and no call goes
\* through a NULL pointer.
C20_AbsentSlotsTransparent ==
  /\ ~Crashed
  /\ \A i \in DOMAIN trace :
       (trace[i].view # NULL /\ trace[i].hook \in ViewSlots) =>
         trace[i].hook \in view_caps[trace[i].view]
\* the load of f has to fail: the file cannot be opened, has no version
\* symbol, or is of another version than the host
LoadFails(f) == ~f.opens \/ ~f.has_version \/ f.version # dt_version
\* positions in load_log of the calls `hook` made for module file f
LoadHook(hook, f) ==
  {i \in DOMAIN load_log :
     load_log[i].hook = hook /\ load_log[i].module_name = f.module_name}
\* positions in vm->views of the views of module file f
ViewsOf(f) ==
  {i \in DOMAIN registry.views :
     registry.views[i].module_name = f.module_name}

\* C21: load failure.  For a module file that cannot be opened, that lacks
\* the version symbol or that reports another version than the host,
\* dt_view_load_module returns failure, resolves no other entry point and
\* calls neither init nor init_key_accels, and the module is no view; every
\* other module of the directory is loaded all the same: it is resolved,
\* its init is called once, and it is a view of the registry.
C21_LoadFailure ==
  registry.loaded =>
    /\ ~registry.fault
    /\ \A k \in DOMAIN load_order :
         LET f == load_order[k]
         IN  /\ Cardinality(LoadHook("return", f)) = 1
             /\ LoadFails(f) =>
                  /\ \A i \in LoadHook("return", f) : load_log[i].ret = 1
                  /\ LoadHook("resolve", f) = {}
                  /\ LoadHook("init", f) = {}
                  /\ LoadHook("init_key_accels", f) = {}
                  /\ ViewsOf(f) = {}
             /\ ~LoadFails(f) =>
                  /\ \A i \in LoadHook("return", f) : load_log[i].ret = 0
                  /\ Cardinality(LoadHook("resolve", f)) = 1
                  /\ Once("init" \in f.caps, LoadHook("init", f))
                  /\ Cardinality(ViewsOf(f)) = 1

\* a module of another version stands between two modules that load
C21_Witness ==
  /\ registry.loaded /\ Len(load_order) = 3
  /\ load_order[2].has_version /\ load_order[2].version # dt_version
  /\ load_order[2].caps = LoaderSlots
  /\ ~LoadFails(load_order[1]) /\ ~LoadFails(load_order[3])
  /\ Len(registry.views) = 2
  /\ LoadHook("init", load_order[1]) # {} /\ LoadHook("init", load_order[3]) # {}
  /\ LoadHook("init_key_accels", load_order[3]) # {}
  /\ LoadHook("version", load_order[2]) # {}
  /\ LoadHook("init", load_order[2]) = {}
\* C22: configure is a broadcast.  dt_view_manager_configure(w, h) sets
\* width = w and height = h in every loaded view and calls the configure
\* entry point of every loaded view that has one, exactly once each and with
\* (w, h), whichever view is active and when none is; it calls nothing else
\* and leaves the active view as it is.
C22_ConfigureBroadcast ==
  [][ \A width \in ConfWidths, height \in ConfHeights :
        Configure(width, height) =>
          /\ \A v \in Views :
               /\ view_geom'[v] = [width |-> width, height |-> height]
               /\ Cardinality({i \in DOMAIN trace' :
                                 /\ trace'[i].hook = "configure"
                                 /\ trace'[i].view = v
                                 /\ trace'[i].a = width
                                 /\ trace'[i].b = height})
                    = IF "configure" \in view_caps[v] THEN 1 ELSE 0
          /\ \A i \in DOMAIN trace' : trace'[i].hook = "configure"
          /\ current_view' = current_view ]_vars

\* both views are configured while darkroom is active, lighttable is not
C22_Witness ==
  /\ last.op = "configure" /\ current_view = "darkroom"
  /\ Len(trace) = 2
  /\ trace[1].view = "lighttable" /\ trace[2].view = "darkroom"
  /\ trace[1].a = 640 /\ trace[1].b = 480
  /\ view_geom["lighttable"] = [width |-> 640, height |-> 480]
  /\ view_geom["darkroom"] = [width |-> 640, height |-> 480]
\* positions in the trace of the collaborator call `hook` on view v
\* (lib = 0) or on plugin p (view = NULL)
Calls(hook, v, p) ==
  {i \in DOMAIN trace :
     trace[i].hook = hook /\ trace[i].view = v /\ trace[i].lib = p}
\* the events of the leave protocol of the last switch
LeaveSteps ==
  {i \in DOMAIN trace :
     \/ trace[i].hook \in {"leave", "view_leave"}
     \/ trace[i].hook = "accel_disconnect" /\ trace[i].view # NULL}

\* C23: leave protocol.  In a successful switch from a view old to a view
\* new, old.leave (when old has it) runs first, then the accelerator
\* closures of old are disconnected, then view_leave(old, new) is called
\* exactly once on every overlay module that is visible in old and has the
\* hook, and on no other module; all of it comes after the entry guard of
\* new has accepted and while the active-view pointer still is old, before
\* it is set to new.
C23_LeaveProtocol ==
  (Completed /\ last.old \in Views) =>
    /\ Once("leave" \in view_caps[last.old], ViewHook("leave", last.old))
    /\ Cardinality(Calls("accel_disconnect", last.old, 0)) = 1
    /\ \A p \in Plugins :
         /\ Once("view_leave" \in libs[p].caps /\ last.old \in libs[p].views,
                 LibHook("view_leave", p))
         /\ \A i \in LibHook("view_leave", p) :
              trace[i].a = last.old /\ trace[i].b = last.nv
    /\ \A i \in ViewHook("leave", last.old),
          j \in Calls("accel_disconnect", last.old, 0) : i < j
    /\ \A j \in Calls("accel_disconnect", last.old, 0), p \in Plugins :
         \A k \in LibHook("view_leave", p) : j < k
    /\ \A i \in LeaveSteps :
         /\ trace[i].cur = last.old
         /\ \A g \in ViewHook("try_enter", last.nv) : g < i
         /\ \A c \in DOMAIN trace : trace[c].cur # last.old => i < c
         /\ \A c \in ViewHook("view", last.nv) : i < c

\* old has leave, new has an entry guard that accepts; one module visible in
\* old is told, another that is not visible in old is not
C23_Witness ==
  /\ Completed /\ last.old \in Views /\ last.old # last.nv
  /\ \E g, i, j, k \in DOMAIN trace :
       /\ g < i /\ i < j /\ j < k
       /\ trace[g].hook = "try_enter" /\ trace[g].ret = 0
       /\ trace[i].hook = "leave" /\ trace[i].view = last.old
       /\ trace[j].hook = "accel_disconnect" /\ trace[j].view = last.old
       /\ trace[k].hook = "view_leave" /\ trace[k].cur = last.old
  /\ \E q \in Plugins :
       /\ "view_leave" \in libs[q].caps /\ last.old \notin libs[q].views
       /\ LibHook("view_leave", q) = {}
\* the events of the attach pass and of the activation pass
AttachSteps ==
  {i \in DOMAIN trace :
     trace[i].lib # 0 /\ trace[i].hook \in {"connect_key_accels", "container_add"}}
EnterSteps == {i \in DOMAIN trace : trace[i].hook = "view_enter"}

\* C24: two-pass rebuild.  In a successful switch to a view new, the attach
\* pass visits the overlay modules visible in new, and only them, from the
\* last module of the list to the first: it calls connect_key_accels of the
\* module (when it has it) and then adds the module to its container; the
\* activation pass starts after the attach pass has ended for all modules,
\* visits the same modules from the first to the last and calls
\* view_enter(old, new) exactly once on each that has the hook.
C24_TwoPassRebuild ==
  Completed =>
    /\ \A p \in Plugins :
         LET visible == last.nv \in libs[p].views
         IN  /\ Cardinality(Calls("container_add", NULL, p))
                  = IF visible THEN 1 ELSE 0
             /\ Once(visible /\ "connect_key_accels" \in libs[p].caps,
                     LibHook("connect_key_accels", p))
             /\ Once(visible /\ "view_enter" \in libs[p].caps,
                     LibHook("view_enter", p))
             /\ \A i \in LibHook("connect_key_accels", p) :
                  i + 1 \in Calls("container_add", NULL, p)
             /\ \A i \in LibHook("view_enter", p) :
                  trace[i].a = last.old /\ trace[i].b = last.nv
    /\ \A i, j \in AttachSteps : trace[i].lib > trace[j].lib => i < j
    /\ \A i, j \in EnterSteps : trace[i].lib < trace[j].lib => i < j
    /\ \A i \in AttachSteps, j \in EnterSteps : i < j

\* two modules are visible in new: the later one is attached first and
\* entered last, and both are attached before either is entered
C24_Witness ==
  /\ Completed
  /\ \E p, q \in Plugins :
       /\ p < q
       /\ \E ap \in Calls("container_add", NULL, p),
             aq \in Calls("container_add", NULL, q),
             ep \in LibHook("view_enter", p),
             eq \in LibHook("view_enter", q) :
            aq < ap /\ ap < ep /\ ep < eq
       /\ LibHook("connect_key_accels", q) # {}
  /\ \E r \in Plugins : last.nv \notin libs[r].views
\* C25: enter ordering.  In a successful switch, new.enter is called after
\* the active-view pointer has been set to new and after the view_enter
\* hook of every visible overlay module has run; new.connect_key_accels is
\* called right after new.enter, with nothing in between; the view-changed
\* signal is raised after both.  (Each of the two is called once when the
\* view has it.)
C25_EnterOrdering ==
  Completed =>
    /\ Once("enter" \in view_caps[last.nv], ViewHook("enter", last.nv))
    /\ Once("connect_key_accels" \in view_caps[last.nv],
            ViewHook("connect_key_accels", last.nv))
    /\ \A e \in ViewHook("enter", last.nv) \cup
                 ViewHook("connect_key_accels", last.nv) :
         /\ trace[e].cur = last.nv
         /\ \A j \in AttachSteps \cup EnterSteps : j < e
         /\ \A j \in LeaveSteps : j < e
         /\ \A s \in ViewHook("VIEW_CHANGED", NULL) : e < s
    /\ \A e \in ViewHook("enter", last.nv),
          c \in ViewHook("connect_key_accels", last.nv) : c = e + 1

\* the view is entered from another one, after the view_enter of a module
C25_Witness ==
  /\ Completed /\ last.old \in Views /\ last.old # last.nv
  /\ \E j, e \in DOMAIN trace :
       /\ j < e
       /\ trace[j].hook = "view_enter" /\ trace[j].cur = last.nv
       /\ trace[e].hook = "enter" /\ trace[e].view = last.nv
       /\ trace[e + 1].hook = "connect_key_accels" /\ trace[e + 1].view = last.nv
       /\ trace[e + 2].hook = "VIEW_CHANGED"
\* C26: teardown on a switch to none.  After old.leave, every overlay
\* module that is visible in old gets view_leave(old, none) (when it has the
\* hook), then its gui_cleanup; its private state is cleared and its
\* accelerator closures are disconnected and emptied.  A module that is not
\* visible in old is not called and keeps its state.  The active-view
\* pointer is old during all of it and none afterwards.
C26_TeardownToNone ==
  [][ (ToNone' /\ last'.old \in Views) =>
        /\ \A i \in DOMAIN trace' :
             (trace'[i].lib # 0 \/ trace'[i].hook = "leave") =>
               trace'[i].cur = last'.old
        /\ \A i \in DOMAIN trace' :
             trace'[i].hook = "leave" =>
               /\ trace'[i].view = last'.old
               /\ \A j \in DOMAIN trace' : trace'[j].lib # 0 => i < j
        /\ current_view' = NULL
        /\ \A p \in Plugins :
             LET ev == {i \in DOMAIN trace' : trace'[i].lib = p}
                 at(hook) == {i \in ev : trace'[i].hook = hook}
             IN  IF last'.old \in libs[p].views
                 THEN /\ \A i \in ev : trace'[i].hook \in
                             {"view_leave", "gui_cleanup", "accel_disconnect"}
                      /\ Once("view_leave" \in libs[p].caps, at("view_leave"))
                      /\ \A i \in at("view_leave") :
                           /\ trace'[i].a = last'.old /\ trace'[i].b = NULL
                           /\ i + 1 \in at("gui_cleanup")
                      /\ Cardinality(at("gui_cleanup")) = 1
                      /\ Cardinality(at("accel_disconnect")) = 1
                      /\ \A i \in at("gui_cleanup") :
                           i + 1 \in at("accel_disconnect")
                      /\ ~lib_gui'[p]
                      /\ lib_accels'[p] = 0
                 ELSE /\ ev = {}
                      /\ lib_gui'[p] = lib_gui[p]
                      /\ lib_accels'[p] = lib_accels[p] ]_vars

\* a switch to none from a view with leave: one module is torn down,
\* another is not visible in the view and keeps its state
C26_Witness ==
  /\ ToNone /\ last.old \in Views
  /\ current_view = NULL
  /\ trace[2].hook = "leave"
  /\ \E p \in Plugins :
       /\ last.old \in libs[p].views /\ ~lib_gui[p] /\ lib_accels[p] = 0
       /\ \E i \in LibHook("view_leave", p) :
            /\ trace[i + 1].hook = "gui_cleanup" /\ trace[i + 1].lib = p
            /\ trace[i + 2].hook = "accel_disconnect" /\ trace[i + 2].lib = p
  /\ \E q \in Plugins :
       last.old \notin libs[q].views /\ lib_gui[q] /\ LibHook("view_leave", q) = {}
\* C27: the accelerator closures of an overlay module are rebuilt, never
\* patched.  Over any sequence of switches, connect_key_accels of a module
\* is called only when its closure list is empty: it was empty before the
\* switch, or the switch has disconnected and emptied it at the leave of
\* the old view; the list never holds more than one round of closures; and
\* between switches a module holds closures only if it is visible in the
\* active view.
C27_AccelsRebuilt ==
  [][ \A p \in Plugins :
        /\ lib_accels'[p] \in {0, 1}
        /\ lib_accels'[p] > 0 =>
             current_view' # NULL /\ current_view' \in libs[p].views
        /\ \A i \in DOMAIN trace' :
             (trace'[i].hook = "connect_key_accels" /\ trace'[i].lib = p) =>
               \/ lib_accels[p] = 0
               \/ \E j \in 1..(i - 1) :
                    trace'[j].hook = "accel_disconnect" /\ trace'[j].lib = p ]_vars

\* a module visible in both views is disconnected and connected again; a
\* module of the old view only is left without closures
C27_Witness ==
  /\ Completed /\ last.old \in Views /\ last.old # last.nv
  /\ \E p \in Plugins :
       /\ libs[p].views = Views /\ lib_accels[p] = 1
       /\ \E j \in Calls("accel_disconnect", NULL, p),
             i \in LibHook("connect_key_accels", p) : j < i
  /\ \E q \in Plugins :
       /\ libs[q].views = {last.old} /\ lib_accels[q] = 0
       /\ Calls("accel_disconnect", NULL, q) # {}
\* the pointer and button events
PointerOps ==
  {"mouse_moved", "mouse_leave", "mouse_enter", "button_pressed",
   "button_released"}

\* C28: dispatch traversal.  For a pointer or button event, the overlay
\* modules are consulted from the last module of the list to the first;
\* only modules that are visible in the active view and have the handler of
\* the event are called, each at most once; the handler of the active view
\* is called, if at all, after the traversal of the modules has ended.
C28_DispatchTraversal ==
  last.op \in PointerOps =>
    /\ \A i \in DOMAIN trace :
         /\ trace[i].hook = last.op
         /\ trace[i].lib # 0 =>
              /\ current_view \in libs[trace[i].lib].views
              /\ last.op \in libs[trace[i].lib].caps
         /\ trace[i].lib = 0 =>
              /\ trace[i].view = current_view
              /\ i = Len(trace)
    /\ \A i, j \in DOMAIN trace :
         (i < j /\ trace[i].lib # 0 /\ trace[j].lib # 0) =>
           trace[i].lib > trace[j].lib

\* a mouse move asks two modules, the later one first, and then the view;
\* a third module is not visible in the view or has no handler
C28_Witness ==
  /\ last.op = "mouse_moved" /\ Len(trace) = 3
  /\ trace[1].lib > trace[2].lib /\ trace[2].lib > 0
  /\ trace[3].view = current_view
  /\ \E q \in Plugins :
       /\ "mouse_moved" \in libs[q].caps
       /\ current_view \notin libs[q].views
\* C29: undo is cleared unconditionally.  Every call of
\* dt_view_manager_switch_by_view clears the undo list exactly once, and
\* before the entry guard and every other hook: the clear is the first thing
\* the call does, also when the entry guard refuses and when the switch is
\* to none.
C29_UndoCleared ==
  (IsSwitch /\ ~NotFound) =>
    /\ trace # <<>>
    /\ trace[1].hook = "undo_clear"
    /\ \A i \in DOMAIN trace : trace[i].hook = "undo_clear" => i = 1

\* a refused switch: the undo list is cleared, then try_enter refuses
C29_Witness ==
  /\ Refused /\ ret # 0
  /\ Len(trace) = 2
  /\ trace[1].hook = "undo_clear"
  /\ trace[2].hook = "try_enter" /\ trace[2].ret # 0
  /\ current_view = last.old
\* the glyphs in the order of the claim
ScanOrder ==
  <<DT_VIEW_STAR_1, DT_VIEW_STAR_2, DT_VIEW_STAR_3, DT_VIEW_STAR_4,
    DT_VIEW_STAR_5, DT_VIEW_REJECT, DT_VIEW_GROUP, DT_VIEW_AUDIO,
    DT_VIEW_ALTERED>>
\* positions in ScanOrder of the glyphs whose hover test passes
Passing ==
  {k \in DOMAIN ScanOrder :
     dt_view_process_image_over(thumb, ScanOrder[k], 1, over.extended) # 0}
\* the gate of the scan: overlays shown or pointer in the metadata zone, and
\* a thumbnail wider than the size limit
GateOpen ==
  /\ \/ over.show_overlays
     \/ thumb.zoom > 1
     \/ thumb.px < thumb.width /\ thumb.py < thumb.height \div 2
  /\ thumb.width > DECORATION_SIZE_LIMIT

\* C30: glyph-under-pointer scan.  dt_view_guess_image_over tests the
\* glyphs in the order star 1 .. star 5, reject, group, audio, altered with
\* dt_view_process_image_over (control active) and returns the first one
\* whose test passes; it returns DT_VIEW_DESERT when no test passes or when
\* the gate of visibility and size is closed.
C30_GlyphScan ==
  over.op = "guess" =>
    over.ret =
      IF GateOpen /\ Passing # {}
      THEN ScanOrder[CHOOSE k \in Passing : \A j \in Passing : k <= j]
      ELSE DT_VIEW_DESERT

\* in the grid the tests of star 1, 2 and 3 pass with the pointer on star 3:
\* the scan returns star 1
C30_Witness ==
  /\ over.op = "guess" /\ GateOpen /\ thumb.zoom > 1
  /\ Passing = {1, 2, 3}
  /\ over.ret = DT_VIEW_STAR_1

\* the star the pointer is on: star k and no higher star
OnStar(k) ==
  /\ PointerInStar(k)
  /\ \A j \in Stars : j > k => ~PointerInStar(j)

\* C31: effective star in grid mode (zoom != 1).  With the pointer within
\* r1 of the centre of star k and of no higher star, the star that the hit
\* test reports is star k: the glyph that dt_view_guess_image_over returns,
\* and the value that the star loop of dt_view_image_expose leaves in
\* *image_over for an image that is not rejected and an active control.
C31_EffectiveStar ==
  \A k \in Stars :
    (thumb.zoom # 1 /\ over.attempted /\ OnStar(k)) =>
      /\ over.op = "guess" => over.ret = k
      /\ (over.op = "expose" /\ over.active = 1 /\ over.e.img.present
          /\ ~over.e.img.rejected) => over.ret = k

\* the pointer is in the half of the thumbnail that carries the metadata
UpperHalf == thumb.px < thumb.width /\ thumb.py < thumb.height \div 2

Chosen ==
  IF mouse_over_id > 0
  THEN (IF images_last.env.mouse_inside /\ mouse_over_id \in Ids(selection)
        THEN selection ELSE <<mouse_over_id>>)
  ELSE IF active_images # <<>> THEN active_images
  ELSE selection
\* the images of the group of image i that are in the collection
GroupOf(i) == IF images_last.env.same_group THEN ImgIds ELSE {i}
\* the groups are expanded: not only the visible images are asked for and
\* grouping hides the other images of the group
Expands == ~images_last.env.only_visible /\ images_last.env.collapsed
\* position of the first occurrence of id in l
FirstAt(l, id) ==
  CHOOSE i \in DOMAIN l : l[i] = id /\ \A j \in DOMAIN l : l[j] = id => i <= j

C34_AlwaysNotified ==
  [][ active_images' # active_images => images_last'.signal ]_vars

\* C34: active-images mutations.  The active images change by
\* dt_view_active_images_add, which appends, and by
\* dt_view_active_images_reset, which empties a list that is not empty;
\* such a call raises the active-images-changed signal before it returns
\* exactly when its raise argument is true.  A reset of an empty list
\* changes nothing and raises nothing, whatever raise is.
C34_NotifiedOnRaise ==
  [][ /\ active_images' # active_images =>
           /\ images_last'.op \in {"add", "reset"}
           /\ images_last'.signal <=> images_last'.raise
      /\ images_last'.op = "add" => active_images' # active_images
      /\ (images_last'.op = "reset" /\ active_images # <<>>) =>
           active_images' = <<>>
      /\ (images_last'.op = "reset" /\ active_images = <<>>) =>
           active_images' = <<>> /\ ~images_last'.signal ]_vars
\* an image has been added with raise false: the list has grown and no
\* signal was raised
C34_Witness ==
  /\ images_last.op = "add" /\ ~images_last.raise /\ ~images_last.signal
  /\ active_images = <<2>>

\* ------------------------------------------------- reading the last expose
\* the modules whose gui_post_expose an expose of view v is to call, in
\* reverse priority order
RECURSIVE DuePosts(_, _)
DuePosts(v, order) ==
  IF order = <<>> THEN <<>>
  ELSE IF "gui_post_expose" \in libs[Head(order)].caps
          /\ v \in libs[Head(order)].views
       THEN <<Head(order)>> \o DuePosts(v, Tail(order))
       ELSE DuePosts(v, Tail(order))
\* the position handed to the hooks of the last expose
PassedPos ==
  IF last.pointery > last.height
  THEN <<10000, -1>> ELSE <<last.pointerx, last.pointery>>

\* C35: expose of the current view.  With an active view
\* dt_view_manager_expose records the given width and height on the view,
\* then calls the view's expose when the view has one, and afterwards
\* gui_post_expose on the overlay modules that have it and are visible in
\* the view, in reverse priority order; all of them get the pointer, and
\* the off-canvas position (10000, -1) when its y exceeds the height.  With
\* no active view nothing is called.
C35_Expose ==
  last.op = "expose" =>
    IF current_view = NULL THEN trace = <<>>
    ELSE LET v == current_view
             own == IF "expose" \in view_caps[v] THEN 1 ELSE 0
             due == DuePosts(v, Reverse)
         IN  /\ view_geom[v] = [width |-> last.width, height |-> last.height]
             /\ Len(trace) = own + Len(due)
             /\ own = 1 => trace[1].hook = "expose" /\ trace[1].view = v
             /\ \A i \in 1..Len(due) :
                  /\ trace[own + i].hook = "gui_post_expose"
                  /\ trace[own + i].lib = due[i]
             /\ \A i \in DOMAIN trace :
                  /\ trace[i].a = <<last.width, last.height>>
                  /\ trace[i].b = PassedPos

\* C36: view accelerator closures never accumulate.  After any sequence of
\* switches a view that is not the active view holds no accelerator
\* closures, and the active view holds those of one round of
\* connect_key_accels at most: the list has been disconnected and emptied
\* whenever the view stopped being active, so connect_key_accels has never
\* been called on a view that still held closures.
C36_NoAccumulation ==
  \A v \in Views :
    /\ v # current_view => view_accels[v] = 0
    /\ view_accels[v] <= 1

\* C37: no use of a torn-down overlay module.  In every switch the attach
\* pass (the module's widget is added to its container) and the view_enter
\* hook are applied only to modules whose GUI state is intact when the
\* switch begins: a module that a switch to none has torn down is neither
\* attached nor entered by a later switch.
C37_NoTornDownUse ==
  [][ \A i \in DOMAIN trace' :
        (trace'[i].hook \in {"container_add", "view_enter"}
         /\ trace'[i].lib \in Plugins) => lib_gui[trace'[i].lib] ]_vars

\* ------------------------------------------------ reading the audio player
\* the players that run, and those whose exit the main loop is to deliver
Running == {p \in DOMAIN audio.procs : audio.procs[p] = "running"}
Watched ==
  {p \in audio.watches : audio.procs[p] \in {"running", "exited"}}

\* C38: audio player tracking.  In every interleaving of
\* dt_view_audio_start, dt_view_audio_stop and the child-exit callbacks,
\* audio_player_id differs from -1 exactly when a player that
\* dt_view_audio_start has spawned is watched and has not been stopped or
\* had its exit delivered; while a player runs, audio_player_id is not -1
\* and the tracked pid is that of the player, so that dt_view_audio_stop
\* kills it.
C38_PlayerTracked ==
  /\ audio.id # -1 <=> Watched # {}
  /\ \A p \in Running : audio.id # -1 /\ audio.pid = p

\* C39: audio stop.  dt_view_audio_stop with audio_player_id == -1 removes
\* no watch and kills nothing; with a player tracked it removes the child
\* watch of that player, then kills the player, and leaves
\* audio_player_id == -1; the child-exit callback never runs for a player
\* that dt_view_audio_stop has stopped.
C39_Stop ==
  [][ /\ (audio'.last.op = "stop" /\ audio.id = -1) =>
           /\ audio'.watches = audio.watches /\ audio'.procs = audio.procs
           /\ audio'.id = -1 /\ audio'.last.steps = <<>>
      /\ (audio'.last.op = "stop" /\ audio.id # -1) =>
           /\ audio'.last.steps = <<"source_remove", "kill", "close_pid">>
           /\ audio.source \notin audio'.watches
           /\ audio.pid \notin audio'.watches
           /\ audio'.procs[audio.pid] # "running"
           /\ audio'.id = -1
      /\ audio'.last.op = "child_watch" =>
           audio.procs[audio'.last.pid] # "killed" ]_vars
\* a tracked player that runs has been stopped: it is killed and unwatched
C39_Witness ==
  /\ audio.last.op = "stop" /\ audio.last.steps # <<>>
  /\ audio.procs[audio.last.pid] = "killed"
  /\ audio.last.pid \notin audio.watches
  /\ audio.id = -1

====
